---- MODULE Spec2Model ----
(***************************************************************************)
(* Verification model of the crypto-risk-platform.                         *)
(*                                                                         *)
(*  - SpecConsumer: the stream consumer (services/ingestion/               *)
(*    kafka_consumer.py) with the store operations it calls                *)
(*    (services/api/crud.py).                                              *)
(*  - SpecApi: the API process (services/api/main.py): the process-wide    *)
(*    GRAPH / ILLICIT / GRAPH_READY / GRAPH_ERROR variables, reload_graph, *)
(*    run_score and a read handler, each request running on its own worker *)
(*    thread.                                                              *)
(***************************************************************************)
EXTENDS Integers, Sequences, FiniteSets, TLC

VARIABLES
    \* ---- message bus and consumer process (kafka_consumer.py) ----
    bus,            \* the topic partition: sequence of JSON records
    committed,      \* committed consumer-group offset (number of records)
    position,       \* the consumer's fetch position (number of records polled)
    buffer,         \* main(): buffer
    cpc,            \* where the consumer process is
    attempt,        \* main(): attempt
    connect_max_attempts, \* main(): CONSUMER_CONNECT_MAX_ATTEMPTS
    time_due,       \* main(): whether flush_seconds have passed since last_flush
    last_tx_id_seen,\* flush_batch(): last_tx_id_seen
    rows,           \* flush_batch(): rows
    inserted,       \* flush_batch(): inserted
    err,            \* str(e) of the exception being handled
    storedBefore,   \* history: tx_ids stored when the current flush began
    \* ---- the store (models.py) ----
    txTable,        \* transactions table, in insertion order
    ing,            \* ingestion_state row of CONSUMER_NAME, <<>> when absent
    runsTable,      \* scoring_runs table (committed rows)
    scoresTable,    \* risk_scores table (committed rows)
    nextRunId,      \* the sequence behind scoring_runs.id
    clock,          \* datetime.now(), as a logical clock
    \* ---- the API process (main.py) ----
    TX_SOURCE,      \* main.TX_SOURCE
    csvFile,        \* the file at TX_PATH
    GRAPH,          \* main.GRAPH, <<>> for None
    ILLICIT,        \* main.ILLICIT, <<>> for None
    GRAPH_READY,    \* main.GRAPH_READY
    GRAPH_ERROR,    \* main.GRAPH_ERROR
    apc,            \* "boot" until the startup event has run
    rl,             \* the worker thread running reload_graph
    rs,             \* the worker threads running run_score
    wg,             \* the worker thread running wallet_graph
    \* ---- a call of a function of risk_engine.py ----
    args,           \* the arguments: the transactions, the illicit set, the wallet
    ret             \* <<>> until the function has returned, then its result

cvars == <<bus, committed, position, buffer, cpc, attempt, connect_max_attempts,
           time_due, last_tx_id_seen, rows, inserted, err, storedBefore>>

evars == <<args, ret>>

avars == <<runsTable, scoresTable, nextRunId, clock, TX_SOURCE, csvFile, GRAPH,
           ILLICIT, GRAPH_READY, GRAPH_ERROR, apc, rl, rs, wg, evars>>

vars == <<cvars, txTable, ing, avars>>

(***************************************************************************)
(* Bounds                                                                  *)
(***************************************************************************)
MaxBus == 2          \* records ever produced to the topic
MaxPoll == 2         \* records returned by one poll
MaxAttempt == 3      \* cap on the connection attempt counter

(***************************************************************************)
(* Python values                                                           *)
(***************************************************************************)
None == "None"                       \* Python None / JSON null / absent key
Truthy(v) == v # None /\ v # ""
PyOr(a, b) == IF Truthy(a) THEN a ELSE b       \* a or b
Get(r, k) == IF k \in DOMAIN r THEN r[k] ELSE None   \* r.get(k)

Min(a, b) == IF a <= b THEN a ELSE b
Max(a, b) == IF a >= b THEN a ELSE b

\* float(s) for the amount strings that occur; -1 stands for ValueError
NumStr == <<"0", "1", "2", "3", "4", "5", "6", "7", "8", "9">>
ParseFloat(s) ==
    IF \E n \in 1..Len(NumStr) : NumStr[n] = s
    THEN (CHOOSE n \in 1..Len(NumStr) : NumStr[n] = s) - 1
    ELSE -1

(***************************************************************************)
(* kafka_consumer.normalize_record                                         *)
(***************************************************************************)
normalize_amount(r) ==
    LET amount_raw == IF "amount" \in DOMAIN r THEN r["amount"] ELSE "0"
        arg == PyOr(amount_raw, "0")
        f == ParseFloat(arg)
    IN  IF f < 0 THEN 0 ELSE f

\* variant: only the sender/receiver schema is supported
normalize_record_canonical(r) ==
    LET tx_id == Get(r, "tx_id")
        sender == Get(r, "sender")
        receiver == Get(r, "receiver")
    IN  IF ~Truthy(tx_id) \/ ~Truthy(sender) \/ ~Truthy(receiver)
        THEN <<>>
        ELSE << [tx_id |-> tx_id, sender |-> sender, receiver |-> receiver,
                 amount |-> normalize_amount(r),
                 timestamp |-> PyOr(Get(r, "timestamp"), None)] >>

normalize_record(r) ==
    LET tx_id == Get(r, "tx_id")
        sender == PyOr(Get(r, "sender"), Get(r, "src"))
        receiver == PyOr(Get(r, "receiver"), Get(r, "dst"))
    IN  IF ~Truthy(tx_id) \/ ~Truthy(sender) \/ ~Truthy(receiver)
        THEN <<>>
        ELSE << [tx_id |-> tx_id, sender |-> sender, receiver |-> receiver,
                 amount |-> normalize_amount(r),
                 timestamp |-> PyOr(Get(r, "timestamp"), None)] >>

\* the records the producers put on the topic
RecordPool ==
    { [tx_id |-> "t1", sender |-> "w1", receiver |-> "w2", amount |-> "5"],
      [tx_id |-> "t2", src |-> "w2", dst |-> "w3", timestamp |-> "ts"],
      [tx_id |-> "t1", sender |-> "w3", receiver |-> "w1", amount |-> "abc"],
      [tx_id |-> "t3", sender |-> "w1", receiver |-> ""],
      [sender |-> "w1", receiver |-> "w2", amount |-> "7"],
      [tx_id |-> "t4", from |-> "w1", to |-> "w2", time |-> "ts"] }

(***************************************************************************)
(* crud.upsert_transactions: INSERT .. ON CONFLICT (tx_id) DO NOTHING      *)
(* RETURNING tx_id, then commit.  Result: the table and the returned ids.  *)
(***************************************************************************)
TableIds(t) == { t[i].tx_id : i \in 1..Len(t) }

RECURSIVE upsert_rec(_, _, _)
upsert_rec(t, tx_rows, ids) ==
    IF tx_rows = <<>> THEN [table |-> t, inserted_ids |-> ids]
    ELSE IF Head(tx_rows).tx_id \in TableIds(t)
         THEN upsert_rec(t, Tail(tx_rows), ids)
         ELSE upsert_rec(Append(t, Head(tx_rows)), Tail(tx_rows),
                         Append(ids, Head(tx_rows).tx_id))

\* variant: a plain INSERT without the ON CONFLICT clause
upsert_transactions_plain(t, tx_rows) ==
    [table |-> t \o tx_rows,
     inserted_ids |-> [i \in 1..Len(tx_rows) |-> tx_rows[i].tx_id]]

\* variant: counts the rows of the statement instead of the returned ids
upsert_transactions_rowcount(t, tx_rows) ==
    [table |-> upsert_rec(t, tx_rows, <<>>).table,
     inserted_ids |-> [i \in 1..Len(tx_rows) |-> tx_rows[i].tx_id]]

upsert_transactions(t, tx_rows) == upsert_rec(t, tx_rows, <<>>)

(***************************************************************************)
(* crud.record_ingestion: INSERT .. ON CONFLICT (name) DO UPDATE           *)
(***************************************************************************)
\* variant: DO UPDATE SET total_inserted = excluded.total_inserted
record_ingestion_overwrite(state, last_tx_id, n, last_error) ==
    << [last_tx_id |-> last_tx_id, total_inserted |-> n, last_error |-> last_error] >>

record_ingestion(state, last_tx_id, n, last_error) ==
    IF state = <<>>
    THEN << [last_tx_id |-> last_tx_id, total_inserted |-> n,
             last_error |-> last_error] >>
    ELSE << [last_tx_id |-> last_tx_id,
             total_inserted |-> state[1].total_inserted + n,
             last_error |-> last_error] >>

(***************************************************************************)
(* kafka_consumer.flush_batch, the part before the store is touched        *)
(***************************************************************************)
RECURSIVE LastTxIdSeen(_)
LastTxIdSeen(buf) ==
    IF buf = <<>> THEN None
    ELSE IF Truthy(Get(buf[Len(buf)], "tx_id")) THEN Get(buf[Len(buf)], "tx_id")
    ELSE LastTxIdSeen(SubSeq(buf, 1, Len(buf) - 1))

\* variant: the loop stops at the first record that does not normalize
RECURSIVE ValidRows_break(_)
ValidRows_break(buf) ==
    IF buf = <<>> \/ normalize_record(Head(buf)) = <<>> THEN <<>>
    ELSE normalize_record(Head(buf)) \o ValidRows_break(Tail(buf))

RECURSIVE ValidRows(_)
ValidRows(buf) ==
    IF buf = <<>> THEN <<>>
    ELSE normalize_record(Head(buf)) \o ValidRows(Tail(buf))

\* lines 76-82: the skipped counter
RECURSIVE Skipped(_)
Skipped(buf) ==
    IF buf = <<>> THEN 0
    ELSE (IF normalize_record(Head(buf)) = <<>> THEN 1 ELSE 0) + Skipped(Tail(buf))

(***************************************************************************)
(* risk_engine.py.  A graph is [nodes, edges]: nodes in insertion order,   *)
(* edges a function from the ordered pairs <<u, v>> to their attributes.   *)
(* A table of transactions (DataFrame) is [columns, rows].                 *)
(***************************************************************************)
SeqSet(sq) == { sq[i] : i \in 1..Len(sq) }
NodeSet(g) == SeqSet(g.nodes)
AddNode(nodes, n) == IF n \in SeqSet(nodes) THEN nodes ELSE Append(nodes, n)

\* float + float for the amounts.  An amount is a double; the double
\* k * 2^53 + o (0 <= o < AmountWindow) is kept as k * AmountWindow + o.  The
\* doubles from k * 2^53 on are Spacing(k) apart, and a sum is rounded to the
\* nearest of them, to the one with the even mantissa when it is half way.
AmountWindow == 100000000
Spacing(k) == IF k = 0 THEN 1 ELSE IF k = 1 THEN 2 ELSE IF k <= 3 THEN 4
              ELSE IF k <= 7 THEN 8 ELSE 16

FloatAdd(a, b) ==
    LET k == (a \div AmountWindow) + (b \div AmountWindow)
        o == (a % AmountWindow) + (b % AmountWindow)
        s == Spacing(k)
        lo == (o \div s) * s
        r == o - lo
        rounded == IF 2 * r < s THEN lo
                   ELSE IF 2 * r > s THEN lo + s
                   ELSE IF (lo \div s) % 2 = 0 THEN lo ELSE lo + s
    IN  k * AmountWindow + rounded

\* variant: a repeated pair overwrites the edge instead of adding to it
RECURSIVE build_rec_overwrite(_, _, _)
build_rec_overwrite(rws, hasAmount, g) ==
    IF rws = <<>> THEN g
    ELSE LET row == Head(rws)
             edge_key == <<row.src, row.dst>>
             amount == IF hasAmount THEN row.amount ELSE 0
         IN  IF edge_key \in DOMAIN g.edges
             THEN build_rec_overwrite(Tail(rws), hasAmount,
                      [g EXCEPT !.edges[edge_key] =
                          [tx_count |-> 1, amount |-> amount]])
             ELSE build_rec_overwrite(Tail(rws), hasAmount,
                      [nodes |-> AddNode(AddNode(g.nodes, row.src), row.dst),
                       edges |-> g.edges @@ (edge_key :> [tx_count |-> 1,
                                                          amount |-> amount]),
                       edge_order |-> Append(g.edge_order, edge_key)])

\* variant: a repeated pair keeps the amount of its last row (= for +=)
RECURSIVE build_rec_assign(_, _, _)
build_rec_assign(rws, hasAmount, g) ==
    IF rws = <<>> THEN g
    ELSE LET row == Head(rws)
             edge_key == <<row.src, row.dst>>
             amount == IF hasAmount THEN row.amount ELSE 0
         IN  IF edge_key \in DOMAIN g.edges
             THEN build_rec_assign(Tail(rws), hasAmount,
                      [g EXCEPT !.edges[edge_key] =
                          [tx_count |-> @.tx_count + 1, amount |-> amount]])
             ELSE build_rec_assign(Tail(rws), hasAmount,
                      [nodes |-> AddNode(AddNode(g.nodes, row.src), row.dst),
                       edges |-> g.edges @@ (edge_key :> [tx_count |-> 1,
                                                          amount |-> amount]),
                       edge_order |-> Append(g.edge_order, edge_key)])

\* lines 33-47: edge_data in the order of the rows, then g.add_edge in the
\* order of edge_data; edge_order is the order in which the edges were added
RECURSIVE build_rec(_, _, _)
build_rec(rws, hasAmount, g) ==
    IF rws = <<>> THEN g
    ELSE LET row == Head(rws)
             edge_key == <<row.src, row.dst>>
             amount == IF hasAmount THEN row.amount ELSE 0
         IN  IF edge_key \in DOMAIN g.edges
             THEN build_rec(Tail(rws), hasAmount,
                      [g EXCEPT !.edges[edge_key] =
                          [tx_count |-> @.tx_count + 1,
                           amount |-> FloatAdd(@.amount, amount)]])
             ELSE build_rec(Tail(rws), hasAmount,
                      [nodes |-> AddNode(AddNode(g.nodes, row.src), row.dst),
                       edges |-> g.edges @@ (edge_key :> [tx_count |-> 1,
                                                          amount |-> amount]),
                       edge_order |-> Append(g.edge_order, edge_key)])

\* build_tx_graph raises ValueError when this set is not empty
MissingColumns(txs) == {"src", "dst"} \ txs.columns

build_tx_graph(txs) ==
    build_rec(txs.rows, "amount" \in txs.columns,
              [nodes |-> <<>>, edges |-> <<>>, edge_order |-> <<>>])

\* random.seed(42); random.sample(range(n), 1)[0] + 1, for n = 1..15
SampleIndex42 == <<1, 1, 3, 1, 1, 6, 6, 2, 2, 2, 11, 11, 11, 11, 11>>

\* pct = 0.05: k = max(1, int(len(nodes) * 0.05)) is 1 for fewer than 40 nodes
pick_seed_illicit_wallets(nodes) ==
    IF nodes = <<>> THEN {} ELSE { nodes[SampleIndex42[Len(nodes)]] }

predecessors(g, n) == { u \in NodeSet(g) : <<u, n>> \in DOMAIN g.edges }
successors(g, n) == { v \in NodeSet(g) : <<n, v>> \in DOMAIN g.edges }
in_degree(g, n) == Cardinality(predecessors(g, n))
out_degree(g, n) == Cardinality(successors(g, n))

\* variant: only the outgoing edges are followed
neighbors_undirected_out(g, node) == successors(g, node)

neighbors_undirected(g, node) == predecessors(g, node) \cup successors(g, node)

\* variant: range(k + 1), one expansion too many
RECURSIVE exposure_bfs_extra(_, _, _, _)
exposure_bfs_extra(g, frontier, visited, k) ==
    IF k < 0 THEN visited
    ELSE LET nxt == UNION { predecessors(g, n) \cup successors(g, n) : n \in frontier }
                        \ visited
         IN  IF nxt = {} THEN visited
             ELSE exposure_bfs_extra(g, nxt, visited \cup nxt, k - 1)

\* variant: the frontier is not advanced (frontier = nxt is missing)
RECURSIVE exposure_bfs_stuck(_, _, _, _)
exposure_bfs_stuck(g, frontier, visited, k) ==
    IF k = 0 THEN visited
    ELSE LET nxt == UNION { neighbors_undirected(g, n) : n \in frontier } \ visited
         IN  IF nxt = {} THEN visited
             ELSE exposure_bfs_stuck(g, frontier, visited \cup nxt, k - 1)

\* the loop of k_hop_exposure: the visited set after at most k expansions
RECURSIVE exposure_bfs(_, _, _, _)
exposure_bfs(g, frontier, visited, k) ==
    IF k = 0 THEN visited
    ELSE LET nxt == UNION { neighbors_undirected(g, n) : n \in frontier } \ visited
         IN  IF nxt = {} THEN visited
             ELSE exposure_bfs(g, nxt, visited \cup nxt, k - 1)

\* variant: the special case k == 0 returns int(bool(node))
k_hop_exposure_truthy(g, node, illicit, k) ==
    IF k = 0 THEN 1
    ELSE Cardinality(exposure_bfs(g, {node}, {node}, k) \cap illicit)

k_hop_exposure(g, node, illicit, k) ==
    IF k = 0 THEN (IF node \in illicit THEN 1 ELSE 0)
    ELSE Cardinality(exposure_bfs(g, {node}, {node}, k) \cap illicit)

RECURSIVE SumSeq(_)
SumSeq(sq) == IF sq = <<>> THEN 0 ELSE Head(sq) + SumSeq(Tail(sq))

(***************************************************************************)
(* Floats.  A score, a weight or a contribution x is kept as the integer    *)
(* x * 10^8.  The hop weights 1.0, 0.6, 0.3 are 10^8, 6 * 10^7, 3 * 10^7.   *)
(***************************************************************************)
Unit == 100000000

\* round(x, 6).  No value of the model is half-way between two millionths,
\* where the binary representation of the float decides
Round6(x) == ((x + 50) \div 100) * 100

\* 10^13 / sqrt(deg) for deg = 1..12, in three groups of digits
InvSqrtHi == <<100000, 70710, 57735, 50000, 44721, 40824, 37796, 35355, 33333,
               31622, 30151, 28867>>
InvSqrtMid == <<0, 6781, 269, 0, 3595, 8290, 4473, 3390, 3333, 7766, 1344, 5134>>
InvSqrtLo == <<0, 1865, 1896, 0, 5000, 4639, 92, 5933, 3333, 168, 5778, 5948>>

\* round(x / deg**0.5, 6) and round(x / math.sqrt(deg), 6) for deg <= 12: for x a
\* multiple of 0.1 up to 100.0 (t tenths) and for x below 0.0001 the digits
\* above give the value the float computation gives (values half-way between
\* two millionths apart)
Round6Div(x, deg) ==
    IF deg = 1 THEN Round6(x)
    ELSE IF x % (Unit \div 10) = 0
    THEN LET t == x \div (Unit \div 10)
         IN  100 * (t * InvSqrtHi[deg]
                      + (t * InvSqrtMid[deg] + (t * InvSqrtLo[deg]) \div 10000 + 5000)
                            \div 10000)
    ELSE LET q == x * InvSqrtHi[deg] + (x * InvSqrtMid[deg]) \div 10000
         IN  100 * ((q + 5000000) \div 10000000)

\* round(math.sqrt(deg), 6) for deg = 1..12, in millionths
SqrtRound6 == <<1000000, 1414214, 1732051, 2000000, 2236068, 2449490, 2645751,
                2828427, 3000000, 3162278, 3316625, 3464102>>

\* RiskConfig as used by main.py
cfg == [hop_weights |-> <<Unit, 6 * (Unit \div 10), 3 * (Unit \div 10)>>,
        degree_normalize |-> TRUE]

\* variant: the score is divided whatever degree_normalize says
risk_score_wallet_divided(g, wallet, illicit, c) ==
    IF wallet \notin NodeSet(g)
    THEN [wallet |-> wallet, risk_score |-> 0, reason |-> "wallet_not_in_graph"]
    ELSE LET exposures ==
                 [h \in 1..Len(c.hop_weights) |->
                     [hop |-> h - 1, weight |-> c.hop_weights[h],
                      illicit_count |-> k_hop_exposure(g, wallet, illicit, h - 1)]]
             raw == SumSeq([h \in 1..Len(exposures) |->
                               exposures[h].weight * exposures[h].illicit_count])
             deg == Max(1, in_degree(g, wallet) + out_degree(g, wallet))
         IN  [wallet |-> wallet, risk_score |-> Round6Div(raw, deg),
              exposures |-> exposures,
              in_degree |-> in_degree(g, wallet),
              out_degree |-> out_degree(g, wallet)]

risk_score_wallet(g, wallet, illicit, c) ==
    IF wallet \notin NodeSet(g)
    THEN [wallet |-> wallet, risk_score |-> 0, reason |-> "wallet_not_in_graph"]
    ELSE LET exposures ==
                 [h \in 1..Len(c.hop_weights) |->
                     [hop |-> h - 1, weight |-> c.hop_weights[h],
                      illicit_count |-> k_hop_exposure(g, wallet, illicit, h - 1)]]
             raw == SumSeq([h \in 1..Len(exposures) |->
                               exposures[h].weight * exposures[h].illicit_count])
             deg == IF c.degree_normalize
                    THEN Max(1, in_degree(g, wallet) + out_degree(g, wallet))
                    ELSE 1
         IN  [wallet |-> wallet, risk_score |-> Round6Div(raw, deg),
              exposures |-> exposures,
              in_degree |-> in_degree(g, wallet),
              out_degree |-> out_degree(g, wallet)]

\* variant: the nodes already visited are not taken out of the next layer
RECURSIVE layers_bfs_revisit(_, _, _, _, _)
layers_bfs_revisit(g, frontier, visited, layers, n) ==
    IF n <= 0 THEN layers
    ELSE LET nxt == UNION { neighbors_undirected(g, x) : x \in frontier }
         IN  layers_bfs_revisit(g, nxt, visited \cup nxt, Append(layers, nxt), n - 1)

\* the loop of k_hop_layers_undirected: n more hops to go
RECURSIVE layers_bfs(_, _, _, _, _)
layers_bfs(g, frontier, visited, layers, n) ==
    IF n <= 0 THEN layers
    ELSE LET nxt == UNION { neighbors_undirected(g, x) : x \in frontier } \ visited
         IN  layers_bfs(g, nxt, visited \cup nxt, Append(layers, nxt), n - 1)

\* variant: layer h holds every node within h hops
k_hop_layers_undirected_cumulative(g, start, max_hops) ==
    IF start \notin NodeSet(g) THEN <<>>
    ELSE [h \in 1..(max_hops + 1) |-> exposure_bfs(g, {start}, {start}, h - 1)]

k_hop_layers_undirected(g, start, max_hops) ==
    IF start \notin NodeSet(g) THEN <<>>
    ELSE layers_bfs(g, {start}, {start}, << {start} >>, max_hops)

\* the wallet identifiers, in the order of Python's string comparison
WalletOrder == <<"w1", "w2", "w3", "w4">>
Rank(w) == CHOOSE i \in 1..Len(WalletOrder) : WalletOrder[i] = w

\* sorted(S) and s[:n]
Sorted(S) == SelectSeq(WalletOrder, LAMBDA w : w \in S)
Take(sq, n) == SubSeq(sq, 1, Min(n, Len(sq)))

\* variant: the smallest contribution comes first
ContributorBefore_ascending(a, b) ==
    \/ a.contribution < b.contribution
    \/ a.contribution = b.contribution /\ a.hop < b.hop
    \/ a.contribution = b.contribution /\ a.hop = b.hop
          /\ Rank(a.wallet) < Rank(b.wallet)

\* contributors.sort(key=lambda x: (-x["contribution"], x["hop"], x["wallet"]))
ContributorBefore(a, b) ==
    \/ a.contribution > b.contribution
    \/ a.contribution = b.contribution /\ a.hop < b.hop
    \/ a.contribution = b.contribution /\ a.hop = b.hop
          /\ Rank(a.wallet) < Rank(b.wallet)

RECURSIVE SortContributors(_)
SortContributors(S) ==
    IF S = {} THEN <<>>
    ELSE LET m == CHOOSE x \in S : \A y \in S \ {x} : ContributorBefore(x, y)
         IN  <<m>> \o SortContributors(S \ {m})

\* max_hops is <<>> for None and <<n>> for the integer n
explain_wallet_risk(g, wallet, illicit, c, max_hops, per_hop_limit, total_limit) ==
    IF wallet \notin NodeSet(g)
    THEN [wallet |-> wallet, reason |-> "wallet_not_in_graph"]
    ELSE LET hop_weights == c.hop_weights
             mh0 == IF max_hops = <<>> THEN Len(hop_weights) - 1 ELSE max_hops[1]
             mh == Max(0, Min(mh0, Len(hop_weights) - 1))
             layers == k_hop_layers_undirected(g, wallet, mh)
             in_deg == in_degree(g, wallet)
             out_deg == out_degree(g, wallet)
             deg == Max(1, in_deg + out_deg)
             nd == IF c.degree_normalize THEN deg ELSE 1
             layer(hop) == IF hop < Len(layers) THEN layers[hop + 1] ELSE {}
             illicit_here(hop) == Sorted(layer(hop) \cap illicit)
             hop_breakdown ==
                 [h \in 1..(mh + 1) |->
                     [hop |-> h - 1,
                      weight |-> hop_weights[h],
                      illicit_count_exact |-> Len(illicit_here(h - 1)),
                      contribution |->
                          Round6Div(hop_weights[h] * Len(illicit_here(h - 1)), nd),
                      illicit_wallets_sample |-> Take(illicit_here(h - 1), per_hop_limit),
                      sample_truncated |-> Len(illicit_here(h - 1)) > per_hop_limit]]
             contributors ==
                 UNION { { [wallet |-> n, hop |-> h - 1, weight |-> hop_weights[h],
                            contribution |-> Round6Div(hop_weights[h], nd)] :
                           n \in layer(h - 1) \cap illicit } : h \in 1..(mh + 1) }
             explain_score ==
                 SumSeq([h \in 1..(mh + 1) |-> hop_breakdown[h].contribution])
         IN  [wallet |-> wallet,
              in_degree |-> in_deg,
              out_degree |-> out_deg,
              degree_normalize |-> c.degree_normalize,
              normalization_factor |-> 100 * SqrtRound6[nd],
              hop_breakdown |-> hop_breakdown,
              top_contributors |-> Take(SortContributors(contributors), total_limit),
              explain_score |-> Round6(explain_score)]

(***************************************************************************)
(* main.load_transactions_from_db, as the DataFrame built from its result  *)
(***************************************************************************)
load_transactions_from_db(t) ==
    [columns |-> {"src", "dst", "amount"} \cup
                 (IF \E i \in 1..Len(t) : Truthy(t[i].timestamp)
                  THEN {"timestamp"} ELSE {}),
     rows |-> [i \in 1..Len(t) |->
                 [src |-> t[i].sender, dst |-> t[i].receiver, amount |-> t[i].amount]]]

(***************************************************************************)
(* Worker threads of the API process when no request is being served       *)
(***************************************************************************)
RunWorkers == {1, 2}

RlIdle == [pc |-> "idle", txs |-> <<>>, tx_count |-> 0]
RsIdle == [pc |-> "idle", g0 |-> <<>>, i0 |-> <<>>, run |-> <<>>, nodes |-> <<>>,
           idx |-> 0, rows |-> <<>>, objs |-> <<>>, result |-> <<>>]
WgIdle == [pc |-> "idle", g |-> <<>>, i |-> <<>>]

ApiNotRunning ==
    /\ runsTable = <<>>
    /\ scoresTable = <<>>
    /\ nextRunId = 1
    /\ clock = 0
    /\ TX_SOURCE = "db"
    /\ csvFile = <<>>
    /\ GRAPH = <<>>
    /\ ILLICIT = <<>>
    /\ GRAPH_READY = FALSE
    /\ GRAPH_ERROR = None
    /\ apc = "boot"
    /\ rl = RlIdle
    /\ rs = [h \in RunWorkers |-> RsIdle]
    /\ wg = WgIdle

(***************************************************************************)
(* The consumer process: kafka_consumer.main                               *)
(***************************************************************************)
batch_size == 2

InitConsumer ==
    /\ bus = <<>>
    /\ committed = 0
    /\ position = 0
    /\ buffer = <<>>
    /\ cpc = "connect"
    /\ attempt = 0
    /\ connect_max_attempts \in {0, 2}
    /\ time_due = FALSE
    /\ last_tx_id_seen = None
    /\ rows = <<>>
    /\ inserted = 0
    /\ err = None
    /\ storedBefore = {}
    /\ txTable = <<>>
    /\ ing = <<>>
    /\ ApiNotRunning
    /\ args = <<>>
    /\ ret = <<>>

\* a producer appends a record to the topic
Produce ==
    /\ Len(bus) < MaxBus
    /\ \E r \in RecordPool : bus' = Append(bus, r)
    /\ UNCHANGED <<committed, position, buffer, cpc, attempt, connect_max_attempts, time_due,
                   last_tx_id_seen, rows, inserted, err, storedBefore, txTable, ing>>
    /\ UNCHANGED avars

\* KafkaConsumer(...) succeeds: the group resumes at its committed offset
ConnectOk ==
    /\ cpc = "connect"
    /\ attempt' = Min(attempt + 1, MaxAttempt)
    /\ position' = committed
    /\ cpc' = "poll"
    /\ time_due' = FALSE
    /\ UNCHANGED <<bus, committed, buffer, connect_max_attempts, last_tx_id_seen,
                   rows, inserted, err, storedBefore, txTable, ing>>
    /\ UNCHANGED avars

\* variant: the limit is tested with > instead of >=
ConnectFail_one_more ==
    /\ cpc = "connect"
    /\ attempt < MaxAttempt
    /\ attempt' = attempt + 1
    /\ cpc' = IF connect_max_attempts > 0 /\ attempt' > connect_max_attempts
              THEN "exited" ELSE "connect"
    /\ UNCHANGED <<bus, committed, position, buffer, connect_max_attempts, time_due,
                   last_tx_id_seen, rows, inserted, err, storedBefore, txTable, ing>>
    /\ UNCHANGED avars

\* KafkaConsumer(...) raises NoBrokersAvailable
ConnectFail ==
    /\ cpc = "connect"
    /\ attempt < MaxAttempt
    /\ attempt' = attempt + 1
    /\ cpc' = IF connect_max_attempts > 0 /\ attempt' >= connect_max_attempts
              THEN "exited" ELSE "connect"
    /\ UNCHANGED <<bus, committed, position, buffer, connect_max_attempts, time_due,
                   last_tx_id_seen, rows, inserted, err, storedBefore, txTable, ing>>
    /\ UNCHANGED avars

\* one loop iteration up to the flush decision
Poll ==
    /\ cpc = "poll"
    /\ \E n \in 0..Min(MaxPoll, Len(bus) - position),
          due \in IF time_due THEN {TRUE} ELSE BOOLEAN :
         /\ buffer' = buffer \o SubSeq(bus, position + 1, position + n)
         /\ position' = position + n
         /\ time_due' = due
         /\ IF buffer' # <<>> /\ (time_due' \/ Len(buffer') >= batch_size)
            THEN /\ cpc' = "flush"
                 /\ storedBefore' = TableIds(txTable)
            ELSE /\ cpc' = "poll"
                 /\ UNCHANGED storedBefore
    /\ UNCHANGED <<bus, committed, attempt, connect_max_attempts, last_tx_id_seen,
                   rows, inserted, err, txTable, ing>>
    /\ UNCHANGED avars

\* consumer.poll raises: caught by the outer handler of main
PollRaise ==
    /\ cpc = "poll"
    /\ cpc' = "crashed"
    /\ err' = "kafka error"
    /\ UNCHANGED <<bus, committed, position, buffer, attempt, connect_max_attempts, time_due,
                   last_tx_id_seen, rows, inserted, storedBefore, txTable, ing>>
    /\ UNCHANGED avars

\* flush_batch lines 64-87, the upsert succeeds (or there is no valid row)
FlushUpsertOk ==
    /\ cpc = "flush"
    /\ last_tx_id_seen' = LastTxIdSeen(buffer)
    /\ rows' = ValidRows(buffer)
    /\ LET res == upsert_transactions(txTable, rows')
       IN  /\ txTable' = res.table
           /\ inserted' = Len(res.inserted_ids)
    /\ cpc' = "commit"
    /\ UNCHANGED <<bus, committed, position, buffer, attempt, connect_max_attempts, time_due,
                   err, storedBefore, ing>>
    /\ UNCHANGED avars

\* variant: the exception of the upsert is swallowed and the flush goes on
FlushUpsertRaise_swallowed ==
    /\ cpc = "flush"
    /\ ValidRows(buffer) # <<>>
    /\ last_tx_id_seen' = LastTxIdSeen(buffer)
    /\ rows' = ValidRows(buffer)
    /\ inserted' = 0
    /\ cpc' = "commit"
    /\ UNCHANGED <<bus, committed, position, buffer, attempt, connect_max_attempts, time_due,
                   err, storedBefore, txTable, ing>>
    /\ UNCHANGED avars

\* flush_batch lines 64-87, the upsert raises
FlushUpsertRaise ==
    /\ cpc = "flush"
    /\ ValidRows(buffer) # <<>>
    /\ last_tx_id_seen' = LastTxIdSeen(buffer)
    /\ rows' = ValidRows(buffer)
    /\ err' = "db error"
    /\ cpc' = "flush_failed"
    /\ UNCHANGED <<bus, committed, position, buffer, attempt, connect_max_attempts, time_due,
                   inserted, storedBefore, txTable, ing>>
    /\ UNCHANGED avars

\* flush_batch line 90: consumer.commit() commits the polled position
FlushCommitOk ==
    /\ cpc = "commit"
    /\ committed' = position
    /\ cpc' = "record"
    /\ UNCHANGED <<bus, position, buffer, attempt, connect_max_attempts, time_due,
                   last_tx_id_seen, rows, inserted, err, storedBefore, txTable, ing>>
    /\ UNCHANGED avars

FlushCommitRaise ==
    /\ cpc = "commit"
    /\ err' = "commit failed"
    /\ cpc' = "flush_failed"
    /\ UNCHANGED <<bus, committed, position, buffer, attempt, connect_max_attempts, time_due,
                   last_tx_id_seen, rows, inserted, storedBefore, txTable, ing>>
    /\ UNCHANGED avars

\* flush_batch lines 93-106 and main lines 164-165
FlushRecordOk ==
    /\ cpc = "record"
    /\ ing' = record_ingestion(ing, last_tx_id_seen, inserted, None)
    /\ buffer' = <<>>
    /\ time_due' = FALSE
    /\ cpc' = "poll"
    /\ last_tx_id_seen' = None
    /\ rows' = <<>>
    /\ inserted' = 0
    /\ UNCHANGED <<bus, committed, position, attempt, connect_max_attempts,
                   err, storedBefore, txTable>>
    /\ UNCHANGED avars

FlushRecordRaise ==
    /\ cpc = "record"
    /\ err' = "db error"
    /\ cpc' = "flush_failed"
    /\ UNCHANGED <<bus, committed, position, buffer, attempt, connect_max_attempts, time_due,
                   last_tx_id_seen, rows, inserted, storedBefore, txTable, ing>>
    /\ UNCHANGED avars

\* variant: the handler drops the records of the failed flush
HandlerRecordOk_clears ==
    /\ cpc = "flush_failed"
    /\ ing' = record_ingestion(ing, None, 0, err)
    /\ cpc' = "poll"
    /\ err' = None
    /\ last_tx_id_seen' = None
    /\ rows' = <<>>
    /\ inserted' = 0
    /\ buffer' = <<>>
    /\ UNCHANGED <<bus, committed, position, attempt, connect_max_attempts, time_due,
                   storedBefore, txTable>>
    /\ UNCHANGED avars

\* main lines 166-184: the handler of a failed flush records the error
HandlerRecordOk ==
    /\ cpc = "flush_failed"
    /\ ing' = record_ingestion(ing, None, 0, err)
    /\ cpc' = "poll"
    /\ err' = None
    /\ last_tx_id_seen' = None
    /\ rows' = <<>>
    /\ inserted' = 0
    /\ UNCHANGED <<bus, committed, position, buffer, attempt, connect_max_attempts, time_due,
                   storedBefore, txTable>>
    /\ UNCHANGED avars

\* main lines 171-181: record_ingestion raises inside the handler; try/finally
\* has no except clause, so the exception leaves the loop
HandlerRecordRaise ==
    /\ cpc = "flush_failed"
    /\ err' = "db error"
    /\ cpc' = "crashed"
    /\ UNCHANGED <<bus, committed, position, buffer, attempt, connect_max_attempts, time_due,
                   last_tx_id_seen, rows, inserted, storedBefore, txTable, ing>>
    /\ UNCHANGED avars

\* main lines 189-204: record the crash, then re-raise
CrashRecordOk ==
    /\ cpc = "crashed"
    /\ ing' = record_ingestion(ing, None, 0, err)
    /\ cpc' = "exited"
    /\ UNCHANGED <<bus, committed, position, buffer, attempt, connect_max_attempts, time_due,
                   last_tx_id_seen, rows, inserted, err, storedBefore, txTable>>
    /\ UNCHANGED avars

CrashRecordRaise ==
    /\ cpc = "crashed"
    /\ cpc' = "exited"
    /\ UNCHANGED <<bus, committed, position, buffer, attempt, connect_max_attempts, time_due,
                   last_tx_id_seen, rows, inserted, err, storedBefore, txTable, ing>>
    /\ UNCHANGED avars

\* KeyboardInterrupt or the process being killed, at any point
Kill ==
    /\ cpc \notin {"exited"}
    /\ cpc' = "exited"
    /\ UNCHANGED <<bus, committed, position, buffer, attempt, connect_max_attempts, time_due,
                   last_tx_id_seen, rows, inserted, err, storedBefore, txTable, ing>>
    /\ UNCHANGED avars

\* the supervisor starts a new consumer process
Restart ==
    /\ cpc = "exited"
    /\ cpc' = "connect"
    /\ attempt' = 0
    /\ buffer' = <<>>
    /\ time_due' = FALSE
    /\ position' = committed
    /\ last_tx_id_seen' = None
    /\ rows' = <<>>
    /\ inserted' = 0
    /\ err' = None
    /\ UNCHANGED <<bus, committed, connect_max_attempts, storedBefore, txTable, ing>>
    /\ UNCHANGED avars

NextConsumer ==
    \/ Produce
    \/ ConnectOk
    \/ ConnectFail
    \/ Poll
    \/ PollRaise
    \/ FlushUpsertOk
    \/ FlushUpsertRaise
    \/ FlushCommitOk
    \/ FlushCommitRaise
    \/ FlushRecordOk
    \/ FlushRecordRaise
    \/ HandlerRecordOk
    \/ HandlerRecordRaise
    \/ CrashRecordOk
    \/ CrashRecordRaise
    \/ Kill
    \/ Restart

SpecConsumer == InitConsumer /\ [][NextConsumer]_vars

(***************************************************************************)
(* The API process: main.py                                                *)
(***************************************************************************)
MaxRuns == 2         \* run_score requests admitted

Wallets == {"w1", "w2", "w3"}

\* the successive contents of the file at TX_PATH
CsvVersions ==
    << [columns |-> {"src", "dst", "amount"},
        rows |-> << [src |-> "w1", dst |-> "w2", amount |-> 5] >>],
       [columns |-> {"src", "dst"},
        rows |-> << [src |-> "w3", dst |-> "w1"], [src |-> "w3", dst |-> "w1"] >>],
       [columns |-> {"from", "to"},
        rows |-> << [from |-> "w1", to |-> "w2"] >>] >>

\* the rows a consumer adds to the transactions table, in offset order
IngestRows ==
    << [tx_id |-> "t1", sender |-> "w1", receiver |-> "w2", amount |-> 5,
        timestamp |-> None],
       [tx_id |-> "t2", sender |-> "w2", receiver |-> "w3", amount |-> 0,
        timestamp |-> "ts"] >>

InitApi ==
    /\ bus = <<>>
    /\ committed = 0
    /\ position = 0
    /\ buffer = <<>>
    /\ cpc = "connect"
    /\ attempt = 0
    /\ connect_max_attempts = 0
    /\ time_due = FALSE
    /\ last_tx_id_seen = None
    /\ rows = <<>>
    /\ inserted = 0
    /\ err = None
    /\ storedBefore = {}
    /\ txTable = <<>>
    /\ ing = <<>>
    /\ runsTable = <<>>
    /\ scoresTable = <<>>
    /\ nextRunId = 1
    /\ clock = 0
    /\ TX_SOURCE \in {"db", "csv"}
    /\ csvFile = CsvVersions[1]
    /\ GRAPH = <<>>
    /\ ILLICIT = <<>>
    /\ GRAPH_READY = FALSE
    /\ GRAPH_ERROR = None
    /\ apc = "boot"
    /\ rl = RlIdle
    /\ rs = [h \in RunWorkers |-> RsIdle]
    /\ wg = WgIdle
    /\ args = <<>>
    /\ ret = <<>>

\* what the source holds now, as the DataFrame the handlers build from it
CurrentTxs == IF TX_SOURCE = "db" THEN load_transactions_from_db(txTable) ELSE csvFile

\* another process commits a new transaction row (upsert by a consumer)
EnvIngest ==
    /\ TX_SOURCE = "db"
    /\ Len(txTable) < Len(IngestRows)
    /\ txTable' = upsert_transactions(txTable, <<IngestRows[Len(txTable) + 1]>>).table
    /\ UNCHANGED <<cvars, ing, avars>>

\* the file at TX_PATH is replaced
EnvEditCsv ==
    /\ TX_SOURCE = "csv"
    /\ \E v \in 1..(Len(CsvVersions) - 1) :
          /\ csvFile = CsvVersions[v]
          /\ csvFile' = CsvVersions[v + 1]
    /\ UNCHANGED <<cvars, evars, txTable, ing, runsTable, scoresTable, nextRunId, clock,
                   TX_SOURCE, GRAPH, ILLICIT, GRAPH_READY, GRAPH_ERROR, apc, rl, rs, wg>>

\* ---- startup(), run by the server before any request is served ----
StartupOk ==
    /\ apc = "boot"
    /\ CurrentTxs.rows # <<>> \/ TX_SOURCE = "csv"
    /\ MissingColumns(CurrentTxs) = {}
    /\ GRAPH' = << build_tx_graph(CurrentTxs) >>
    /\ ILLICIT' = << pick_seed_illicit_wallets(GRAPH'[1].nodes) >>
    /\ GRAPH_READY' = TRUE
    /\ GRAPH_ERROR' = None
    /\ apc' = "serving"
    /\ UNCHANGED <<cvars, evars, txTable, ing, runsTable, scoresTable, nextRunId, clock,
                   TX_SOURCE, csvFile, rl, rs, wg>>

StartupEmpty ==
    /\ apc = "boot"
    /\ TX_SOURCE = "db"
    /\ CurrentTxs.rows = <<>>
    /\ GRAPH_READY' = FALSE
    /\ GRAPH_ERROR' = "TX_SOURCE=db but no transactions found. Ingest first, then POST /reload-graph."
    /\ apc' = "serving"
    /\ UNCHANGED <<cvars, evars, txTable, ing, runsTable, scoresTable, nextRunId, clock,
                   TX_SOURCE, csvFile, GRAPH, ILLICIT, rl, rs, wg>>

\* the query raises ProgrammingError (tables not migrated)
StartupDbError ==
    /\ apc = "boot"
    /\ TX_SOURCE = "db"
    /\ GRAPH_READY' = FALSE
    /\ GRAPH_ERROR' = "Graph not loaded at startup (DB not ready/migrated): e"
    /\ apc' = "serving"
    /\ UNCHANGED <<cvars, evars, txTable, ing, runsTable, scoresTable, nextRunId, clock,
                   TX_SOURCE, csvFile, GRAPH, ILLICIT, rl, rs, wg>>

\* any other exception: the source cannot be read, or build_tx_graph raises
StartupError ==
    /\ apc = "boot"
    /\ GRAPH_READY' = FALSE
    /\ GRAPH_ERROR' = "Graph not loaded at startup: e"
    /\ apc' = "serving"
    /\ UNCHANGED <<cvars, evars, txTable, ing, runsTable, scoresTable, nextRunId, clock,
                   TX_SOURCE, csvFile, GRAPH, ILLICIT, rl, rs, wg>>

\* variant: GRAPH_READY is set as soon as the transactions are loaded
ReloadLoad_ready_first ==
    /\ apc = "serving"
    /\ rl.pc = "idle"
    /\ CurrentTxs.rows # <<>> \/ TX_SOURCE = "csv"
    /\ rl' = [pc |-> "loaded", txs |-> CurrentTxs, tx_count |-> Len(CurrentTxs.rows)]
    /\ GRAPH_READY' = TRUE
    /\ UNCHANGED <<cvars, evars, txTable, ing, runsTable, scoresTable, nextRunId, clock,
                   TX_SOURCE, csvFile, GRAPH, ILLICIT, GRAPH_ERROR,
                   apc, rs, wg>>

\* ---- reload_graph() ----
\* lines 128-140: the source is read
ReloadLoad ==
    /\ apc = "serving"
    /\ rl.pc = "idle"
    /\ CurrentTxs.rows # <<>> \/ TX_SOURCE = "csv"
    /\ rl' = [pc |-> "loaded", txs |-> CurrentTxs, tx_count |-> Len(CurrentTxs.rows)]
    /\ UNCHANGED <<cvars, evars, txTable, ing, runsTable, scoresTable, nextRunId, clock,
                   TX_SOURCE, csvFile, GRAPH, ILLICIT, GRAPH_READY, GRAPH_ERROR,
                   apc, rs, wg>>

\* lines 130-133: no transactions in the table
ReloadEmpty ==
    /\ apc = "serving"
    /\ rl.pc = "idle"
    /\ TX_SOURCE = "db"
    /\ CurrentTxs.rows = <<>>
    /\ GRAPH_READY' = FALSE
    /\ GRAPH_ERROR' = "No transactions found in DB."
    /\ UNCHANGED <<cvars, evars, txTable, ing, runsTable, scoresTable, nextRunId, clock,
                   TX_SOURCE, csvFile, GRAPH, ILLICIT, apc, rl, rs, wg>>

\* lines 155-159: the query raises ProgrammingError
ReloadDbError ==
    /\ apc = "serving"
    /\ rl.pc = "idle"
    /\ TX_SOURCE = "db"
    /\ GRAPH_READY' = FALSE
    /\ GRAPH_ERROR' = "DB not ready/migrated: e"
    /\ UNCHANGED <<cvars, evars, txTable, ing, runsTable, scoresTable, nextRunId, clock,
                   TX_SOURCE, csvFile, GRAPH, ILLICIT, apc, rl, rs, wg>>

\* lines 165-168: reading the source raises another exception
ReloadError ==
    /\ apc = "serving"
    /\ rl.pc = "idle"
    /\ GRAPH_READY' = FALSE
    /\ GRAPH_ERROR' = "e"
    /\ UNCHANGED <<cvars, evars, txTable, ing, runsTable, scoresTable, nextRunId, clock,
                   TX_SOURCE, csvFile, GRAPH, ILLICIT, apc, rl, rs, wg>>

\* line 142: GRAPH = build_tx_graph(txs)
ReloadBuild ==
    /\ rl.pc = "loaded"
    /\ MissingColumns(rl.txs) = {}
    /\ GRAPH' = << build_tx_graph(rl.txs) >>
    /\ rl' = [rl EXCEPT !.pc = "built"]
    /\ UNCHANGED <<cvars, evars, txTable, ing, runsTable, scoresTable, nextRunId, clock,
                   TX_SOURCE, csvFile, ILLICIT, GRAPH_READY, GRAPH_ERROR, apc, rs, wg>>

\* line 142 raises ValueError, handled at lines 165-168
ReloadBuildRaise ==
    /\ rl.pc = "loaded"
    /\ MissingColumns(rl.txs) # {}
    /\ GRAPH_READY' = FALSE
    /\ GRAPH_ERROR' = "Missing columns"
    /\ rl' = RlIdle
    /\ UNCHANGED <<cvars, evars, txTable, ing, runsTable, scoresTable, nextRunId, clock,
                   TX_SOURCE, csvFile, GRAPH, ILLICIT, apc, rs, wg>>

\* line 143: ILLICIT = pick_seed_illicit_wallets(GRAPH.nodes, ...)
ReloadPick ==
    /\ rl.pc = "built"
    /\ ILLICIT' = << pick_seed_illicit_wallets(GRAPH[1].nodes) >>
    /\ rl' = [rl EXCEPT !.pc = "picked"]
    /\ UNCHANGED <<cvars, evars, txTable, ing, runsTable, scoresTable, nextRunId, clock,
                   TX_SOURCE, csvFile, GRAPH, GRAPH_READY, GRAPH_ERROR, apc, rs, wg>>

\* line 145: GRAPH_READY = True
ReloadReady ==
    /\ rl.pc = "picked"
    /\ GRAPH_READY' = TRUE
    /\ rl' = [rl EXCEPT !.pc = "ready"]
    /\ UNCHANGED <<cvars, evars, txTable, ing, runsTable, scoresTable, nextRunId, clock,
                   TX_SOURCE, csvFile, GRAPH, ILLICIT, GRAPH_ERROR, apc, rs, wg>>

\* variant: the message of an earlier failure is left in GRAPH_ERROR
ReloadReturn_keeps_error ==
    /\ rl.pc = "ready"
    /\ rl' = RlIdle
    /\ UNCHANGED <<cvars, evars, txTable, ing, runsTable, scoresTable, nextRunId, clock,
                   TX_SOURCE, csvFile, GRAPH, ILLICIT, GRAPH_READY, GRAPH_ERROR,
                   apc, rs, wg>>

\* lines 146-153: GRAPH_ERROR = None and the response
ReloadReturn ==
    /\ rl.pc = "ready"
    /\ GRAPH_ERROR' = None
    /\ rl' = RlIdle
    /\ UNCHANGED <<cvars, evars, txTable, ing, runsTable, scoresTable, nextRunId, clock,
                   TX_SOURCE, csvFile, GRAPH, ILLICIT, GRAPH_READY, apc, rs, wg>>

\* ---- run_score(), on worker thread h ----
\* the thread pool hands a request to its first free worker
FirstFree(h) ==
    /\ rs[h].pc = "idle"
    /\ \A k \in RunWorkers : k < h => rs[k].pc # "idle"

\* lines 174-178: the request is refused with 503
RunRejected(h) ==
    /\ apc = "serving"
    /\ FirstFree(h)
    /\ ~GRAPH_READY \/ GRAPH = <<>> \/ ILLICIT = <<>>
    /\ rs' = [rs EXCEPT ![h] = [RsIdle EXCEPT !.pc = "failed", !.result = <<503>>]]
    /\ UNCHANGED <<cvars, evars, txTable, ing, runsTable, scoresTable, nextRunId, clock,
                   TX_SOURCE, csvFile, GRAPH, ILLICIT, GRAPH_READY, GRAPH_ERROR,
                   apc, rl, wg>>

\* lines 174-178 pass; g0 and i0 remember what was published at that moment
RunGuard(h) ==
    /\ apc = "serving"
    /\ FirstFree(h)
    /\ nextRunId + Cardinality({ k \in RunWorkers : rs[k].pc = "guarded" }) <= MaxRuns
    /\ GRAPH_READY /\ GRAPH # <<>> /\ ILLICIT # <<>>
    /\ rs' = [rs EXCEPT ![h] = [RsIdle EXCEPT !.pc = "guarded", !.g0 = GRAPH,
                                              !.i0 = ILLICIT]]
    /\ UNCHANGED <<cvars, evars, txTable, ing, runsTable, scoresTable, nextRunId, clock,
                   TX_SOURCE, csvFile, GRAPH, ILLICIT, GRAPH_READY, GRAPH_ERROR,
                   apc, rl, wg>>

\* variant: create_scoring_run commits the run row instead of flushing it
RunCreate_committed(h) ==
    /\ rs[h].pc = "guarded"
    /\ rs' = [rs EXCEPT ![h].pc = "loop",
                        ![h].run = << [id |-> nextRunId, created_at |-> clock,
                                       tx_source |-> IF TX_SOURCE = "csv"
                                                     THEN "csv:data/transactions.csv"
                                                     ELSE "db:transactions",
                                       config_json |->
                                           [hop_weights |-> cfg.hop_weights,
                                            degree_normalize |-> cfg.degree_normalize,
                                            illicit_seed_pct |-> 5]] >>,
                        ![h].nodes = GRAPH[1].nodes,
                        ![h].idx = 1]
    /\ runsTable' = Append(runsTable, rs'[h].run[1])
    /\ nextRunId' = nextRunId + 1
    /\ clock' = clock + 1
    /\ UNCHANGED <<cvars, evars, txTable, ing, scoresTable,
                   TX_SOURCE, csvFile, GRAPH, ILLICIT, GRAPH_READY, GRAPH_ERROR,
                   apc, rl, wg>>

\* lines 181-192: crud.create_scoring_run adds and flushes the run row inside
\* the session's transaction; the loop takes GRAPH.nodes
RunCreate(h) ==
    /\ rs[h].pc = "guarded"
    /\ rs' = [rs EXCEPT ![h].pc = "loop",
                        ![h].run = << [id |-> nextRunId, created_at |-> clock,
                                       tx_source |-> IF TX_SOURCE = "csv"
                                                     THEN "csv:data/transactions.csv"
                                                     ELSE "db:transactions",
                                       config_json |->
                                           [hop_weights |-> cfg.hop_weights,
                                            degree_normalize |-> cfg.degree_normalize,
                                            illicit_seed_pct |-> 5]] >>,
                        ![h].nodes = GRAPH[1].nodes,
                        ![h].idx = 1]
    /\ nextRunId' = nextRunId + 1
    /\ clock' = clock + 1
    /\ UNCHANGED <<cvars, evars, txTable, ing, runsTable, scoresTable,
                   TX_SOURCE, csvFile, GRAPH, ILLICIT, GRAPH_READY, GRAPH_ERROR,
                   apc, rl, wg>>

\* the INSERT of the run row raises; get_db closes the session
RunCreateRaise(h) ==
    /\ rs[h].pc = "guarded"
    /\ rs' = [rs EXCEPT ![h] = [RsIdle EXCEPT !.pc = "failed", !.result = <<500>>]]
    /\ UNCHANGED <<cvars, evars, txTable, ing, runsTable, scoresTable, nextRunId, clock,
                   TX_SOURCE, csvFile, GRAPH, ILLICIT, GRAPH_READY, GRAPH_ERROR,
                   apc, rl, wg>>

\* lines 192-202, one iteration: risk_score_wallet(GRAPH, w, ILLICIT, cfg)
ScoreRow(g, w, illicit) ==
    LET r == risk_score_wallet(g, w, illicit, cfg)
    IN  [wallet |-> r.wallet, risk_score |-> r.risk_score,
         exposures_json |-> r.exposures,
         in_degree |-> r.in_degree, out_degree |-> r.out_degree]

RunScoreWallet(h) ==
    /\ rs[h].pc = "loop"
    /\ rs[h].idx <= Len(rs[h].nodes)
    /\ rs[h].nodes[rs[h].idx] \in NodeSet(GRAPH[1])
    /\ rs' = [rs EXCEPT ![h].rows = Append(@, ScoreRow(GRAPH[1], rs[h].nodes[rs[h].idx],
                                                       ILLICIT[1])),
                        ![h].idx = @ + 1]
    /\ UNCHANGED <<cvars, evars, txTable, ing, runsTable, scoresTable, nextRunId, clock,
                   TX_SOURCE, csvFile, GRAPH, ILLICIT, GRAPH_READY, GRAPH_ERROR,
                   apc, rl, wg>>

\* the wallet is not in the graph GRAPH now names: r["exposures"] raises
\* KeyError; get_db closes the session, which rolls the run row back
RunScoreWalletRaise(h) ==
    /\ rs[h].pc = "loop"
    /\ rs[h].idx <= Len(rs[h].nodes)
    /\ rs[h].nodes[rs[h].idx] \notin NodeSet(GRAPH[1])
    /\ rs' = [rs EXCEPT ![h].pc = "failed", ![h].result = <<500>>]
    /\ UNCHANGED <<cvars, evars, txTable, ing, runsTable, scoresTable, nextRunId, clock,
                   TX_SOURCE, csvFile, GRAPH, ILLICIT, GRAPH_READY, GRAPH_ERROR,
                   apc, rl, wg>>

\* variant: the last row is left out (off by one)
bulk_insert_risk_scores_short(run_id, rws, now) ==
    [i \in 1..(Len(rws) - 1) |->
        [run_id |-> run_id, wallet |-> rws[i].wallet,
         risk_score |-> rws[i].risk_score,
         exposures_json |-> rws[i].exposures_json,
         in_degree |-> rws[i].in_degree, out_degree |-> rws[i].out_degree,
         created_at |-> now]]

\* line 204: crud.bulk_insert_risk_scores adds the objects to the session
bulk_insert_risk_scores(run_id, rws, now) ==
    [i \in 1..Len(rws) |->
        [run_id |-> run_id, wallet |-> rws[i].wallet,
         risk_score |-> rws[i].risk_score,
         exposures_json |-> rws[i].exposures_json,
         in_degree |-> rws[i].in_degree, out_degree |-> rws[i].out_degree,
         created_at |-> now]]

RunBulkInsert(h) ==
    /\ rs[h].pc = "loop"
    /\ rs[h].idx > Len(rs[h].nodes)
    /\ rs' = [rs EXCEPT ![h].pc = "commit",
                        ![h].objs = bulk_insert_risk_scores(rs[h].run[1].id,
                                                            rs[h].rows, clock)]
    /\ clock' = clock + 1
    /\ UNCHANGED <<cvars, evars, txTable, ing, runsTable, scoresTable, nextRunId,
                   TX_SOURCE, csvFile, GRAPH, ILLICIT, GRAPH_READY, GRAPH_ERROR,
                   apc, rl, wg>>

\* lines 205-207: db.commit() writes the run row and the score rows
RunCommit(h) ==
    /\ rs[h].pc = "commit"
    /\ runsTable' = runsTable \o rs[h].run
    /\ scoresTable' = scoresTable \o rs[h].objs
    /\ rs' = [rs EXCEPT ![h].pc = "done",
                        ![h].result = << [run_id |-> rs[h].run[1].id,
                                          wallets_scored |-> Len(rs[h].objs)] >>]
    /\ UNCHANGED <<cvars, evars, txTable, ing, nextRunId, clock,
                   TX_SOURCE, csvFile, GRAPH, ILLICIT, GRAPH_READY, GRAPH_ERROR,
                   apc, rl, wg>>

\* db.commit() raises; get_db closes the session
RunCommitRaise(h) ==
    /\ rs[h].pc = "commit"
    /\ rs' = [rs EXCEPT ![h].pc = "failed", ![h].result = <<500>>]
    /\ UNCHANGED <<cvars, evars, txTable, ing, runsTable, scoresTable, nextRunId, clock,
                   TX_SOURCE, csvFile, GRAPH, ILLICIT, GRAPH_READY, GRAPH_ERROR,
                   apc, rl, wg>>

\* the response has been sent; the worker thread is free again
RunReturn(h) ==
    /\ rs[h].pc \in {"done", "failed"}
    /\ rs' = [rs EXCEPT ![h] = RsIdle]
    /\ UNCHANGED <<cvars, evars, txTable, ing, runsTable, scoresTable, nextRunId, clock,
                   TX_SOURCE, csvFile, GRAPH, ILLICIT, GRAPH_READY, GRAPH_ERROR,
                   apc, rl, wg>>

\* ---- wallet_graph(), the reads of the process-wide variables ----
\* lines 490-491: refused with 503
WgRejected ==
    /\ apc = "serving"
    /\ wg.pc = "idle"
    /\ ~GRAPH_READY \/ GRAPH = <<>> \/ ILLICIT = <<>>
    /\ wg' = [WgIdle EXCEPT !.pc = "done"]
    /\ UNCHANGED <<cvars, evars, txTable, ing, runsTable, scoresTable, nextRunId, clock,
                   TX_SOURCE, csvFile, GRAPH, ILLICIT, GRAPH_READY, GRAPH_ERROR,
                   apc, rl, rs>>

\* lines 490-491 pass
WgGuard ==
    /\ apc = "serving"
    /\ wg.pc = "idle"
    /\ GRAPH_READY /\ GRAPH # <<>> /\ ILLICIT # <<>>
    /\ wg' = [WgIdle EXCEPT !.pc = "layers"]
    /\ UNCHANGED <<cvars, evars, txTable, ing, runsTable, scoresTable, nextRunId, clock,
                   TX_SOURCE, csvFile, GRAPH, ILLICIT, GRAPH_READY, GRAPH_ERROR,
                   apc, rl, rs>>

\* lines 493-496: the neighbourhood is computed from GRAPH (404 when the
\* wallet is not in it)
WgLayers ==
    /\ wg.pc = "layers"
    /\ \E wallet \in Wallets :
          wg' = IF wallet \in NodeSet(GRAPH[1])
                THEN [wg EXCEPT !.pc = "tags", !.g = GRAPH]
                ELSE [wg EXCEPT !.pc = "done"]
    /\ UNCHANGED <<cvars, evars, txTable, ing, runsTable, scoresTable, nextRunId, clock,
                   TX_SOURCE, csvFile, GRAPH, ILLICIT, GRAPH_READY, GRAPH_ERROR,
                   apc, rl, rs>>

\* lines 595-646: importance and tags are computed from ILLICIT
WgTags ==
    /\ wg.pc = "tags"
    /\ wg' = [wg EXCEPT !.pc = "done", !.i = ILLICIT]
    /\ UNCHANGED <<cvars, evars, txTable, ing, runsTable, scoresTable, nextRunId, clock,
                   TX_SOURCE, csvFile, GRAPH, ILLICIT, GRAPH_READY, GRAPH_ERROR,
                   apc, rl, rs>>

WgReturn ==
    /\ wg.pc = "done"
    /\ wg' = WgIdle
    /\ UNCHANGED <<cvars, evars, txTable, ing, runsTable, scoresTable, nextRunId, clock,
                   TX_SOURCE, csvFile, GRAPH, ILLICIT, GRAPH_READY, GRAPH_ERROR,
                   apc, rl, rs>>

\* the API process serving reload_graph and run_score requests, one
\* run_score request at a time
NextApi ==
    \/ EnvIngest
    \/ EnvEditCsv
    \/ StartupOk
    \/ StartupEmpty
    \/ StartupDbError
    \/ StartupError
    \/ ReloadLoad
    \/ ReloadEmpty
    \/ ReloadDbError
    \/ ReloadError
    \/ ReloadBuild
    \/ ReloadBuildRaise
    \/ ReloadPick
    \/ ReloadReady
    \/ ReloadReturn
    \/ \E h \in {1} : RunRejected(h)
    \/ \E h \in {1} : RunGuard(h)
    \/ \E h \in {1} : RunCreate(h)
    \/ \E h \in {1} : RunCreateRaise(h)
    \/ \E h \in {1} : RunScoreWallet(h)
    \/ \E h \in {1} : RunScoreWalletRaise(h)
    \/ \E h \in {1} : RunBulkInsert(h)
    \/ \E h \in {1} : RunCommit(h)
    \/ \E h \in {1} : RunCommitRaise(h)
    \/ \E h \in {1} : RunReturn(h)

\* the same with run_score requests served concurrently
NextApiPair ==
    \/ EnvIngest
    \/ EnvEditCsv
    \/ StartupOk
    \/ StartupEmpty
    \/ StartupDbError
    \/ StartupError
    \/ ReloadLoad
    \/ ReloadEmpty
    \/ ReloadDbError
    \/ ReloadError
    \/ ReloadBuild
    \/ ReloadBuildRaise
    \/ ReloadPick
    \/ ReloadReady
    \/ ReloadReturn
    \/ \E h \in RunWorkers : RunRejected(h)
    \/ \E h \in RunWorkers : RunGuard(h)
    \/ \E h \in RunWorkers : RunCreate(h)
    \/ \E h \in RunWorkers : RunCreateRaise(h)
    \/ \E h \in RunWorkers : RunScoreWallet(h)
    \/ \E h \in RunWorkers : RunScoreWalletRaise(h)
    \/ \E h \in RunWorkers : RunBulkInsert(h)
    \/ \E h \in RunWorkers : RunCommit(h)
    \/ \E h \in RunWorkers : RunCommitRaise(h)
    \/ \E h \in RunWorkers : RunReturn(h)

\* the API process serving reload_graph and wallet_graph requests
NextApiRead ==
    \/ EnvIngest
    \/ EnvEditCsv
    \/ StartupOk
    \/ StartupEmpty
    \/ StartupDbError
    \/ StartupError
    \/ ReloadLoad
    \/ ReloadEmpty
    \/ ReloadDbError
    \/ ReloadError
    \/ ReloadBuild
    \/ ReloadBuildRaise
    \/ ReloadPick
    \/ ReloadReady
    \/ ReloadReturn
    \/ WgRejected
    \/ WgGuard
    \/ WgLayers
    \/ WgTags
    \/ WgReturn

SpecApi == InitApi /\ [][NextApi]_vars

SpecApiPair == InitApi /\ [][NextApiPair]_vars

SpecApiRead == InitApi /\ [][NextApiRead]_vars

(***************************************************************************)
(* normalize_record applied to one bus record                              *)
(***************************************************************************)
ConsumerNotRunning ==
    /\ bus = <<>>
    /\ committed = 0
    /\ position = 0
    /\ buffer = <<>>
    /\ cpc = "connect"
    /\ attempt = 0
    /\ connect_max_attempts = 0
    /\ time_due = FALSE
    /\ last_tx_id_seen = None
    /\ rows = <<>>
    /\ inserted = 0
    /\ err = None
    /\ storedBefore = {}
    /\ txTable = <<>>
    /\ ing = <<>>

\* a JSON object as json.loads returns it: a key is absent or has a value
Absent == "absent"
Field(k, v) == IF v = Absent THEN [x \in {} |-> x] ELSE k :> v

BusRecords ==
    { Field("tx_id", a) @@ Field("sender", b) @@ Field("src", c) @@ Field("from", d)
        @@ Field("receiver", e) @@ Field("dst", f) @@ Field("to", g)
        @@ Field("timestamp", h) @@ Field("time", i) @@ Field("amount", j) :
        a \in {Absent, "", "t1"}, b \in {Absent, "", "w1"}, c \in {Absent, "w2"},
        d \in {Absent, "w3"}, e \in {Absent, "", "w4"}, f \in {Absent, "w5"},
        g \in {Absent, "w6"}, h \in {Absent, "ts"}, i \in {Absent, "tm"},
        j \in {Absent, "5", "abc"} }

InitNormalize ==
    /\ ConsumerNotRunning
    /\ ApiNotRunning
    /\ args \in BusRecords
    /\ ret = <<>>

\* flush_batch line 79: norm = normalize_record(r)
CallNormalizeRecord ==
    /\ ret = <<>>
    /\ ret' = << [fn |-> "normalize_record", value |-> normalize_record(args)] >>
    /\ UNCHANGED <<cvars, txTable, ing, runsTable, scoresTable, nextRunId, clock,
                   TX_SOURCE, csvFile, GRAPH, ILLICIT, GRAPH_READY, GRAPH_ERROR,
                   apc, rl, rs, wg, args>>

NextNormalize == CallNormalizeRecord

SpecNormalize == InitNormalize /\ [][NextNormalize]_vars

(***************************************************************************)
(* The functions of risk_engine.py applied to one graph, illicit set and   *)
(* wallet                                                                  *)
(***************************************************************************)
MaxTx == 2           \* transactions of the graph
MaxK == 3            \* hops asked for

\* the pairs (src, dst) a transaction can have
EdgeOrder ==
    [n \in 1..(Len(WalletOrder) * Len(WalletOrder)) |->
        << WalletOrder[((n - 1) \div Len(WalletOrder)) + 1],
           WalletOrder[((n - 1) % Len(WalletOrder)) + 1] >>]

\* the DataFrame with one transaction for each pair of E
TxsOf(E) ==
    LET sel == SelectSeq([n \in 1..Len(EdgeOrder) |-> n], LAMBDA n : n \in E)
    IN  [columns |-> {"src", "dst"},
         rows |-> [j \in 1..Len(sel) |->
                     [src |-> EdgeOrder[sel[j]][1], dst |-> EdgeOrder[sel[j]][2]]]]

\* RiskConfig values: the one of main.py, the one of the tests, one with two
\* hop weights (1.0, 0.5) and one with the weights 0.00000055, 0.0000003, 0.0
Configs ==
    { cfg,
      [hop_weights |-> cfg.hop_weights, degree_normalize |-> FALSE],
      [hop_weights |-> <<Unit, 5 * (Unit \div 10)>>, degree_normalize |-> TRUE],
      [hop_weights |-> <<55, 30, 0>>, degree_normalize |-> FALSE] }

\* the arguments max_hops (<<>> for None), per_hop_limit, total_limit of
\* explain_wallet_risk
ExplainOptions ==
    { [max_hops |-> <<>>, per_hop_limit |-> 15, total_limit |-> 50],
      [max_hops |-> <<1>>, per_hop_limit |-> 15, total_limit |-> 50],
      [max_hops |-> <<MaxK>>, per_hop_limit |-> 1, total_limit |-> 2] }

InitEngine ==
    /\ ConsumerNotRunning
    /\ ApiNotRunning
    /\ args \in { [txs |-> TxsOf(E), illicit |-> I, wallet |-> w] :
                     E \in { S \in SUBSET (1..Len(EdgeOrder)) : Cardinality(S) <= MaxTx },
                     I \in SUBSET SeqSet(WalletOrder),
                     w \in SeqSet(WalletOrder) }
    /\ ret = <<>>

ArgGraph == build_tx_graph(args.txs)

CallKHopExposure ==
    /\ ret = <<>>
    /\ args.wallet \in NodeSet(ArgGraph)
    /\ \E k \in 0..MaxK :
          ret' = << [fn |-> "k_hop_exposure", k |-> k,
                     value |-> k_hop_exposure(ArgGraph, args.wallet, args.illicit, k)] >>
    /\ UNCHANGED <<cvars, txTable, ing, runsTable, scoresTable, nextRunId, clock,
                   TX_SOURCE, csvFile, GRAPH, ILLICIT, GRAPH_READY, GRAPH_ERROR,
                   apc, rl, rs, wg, args>>

CallKHopLayers ==
    /\ ret = <<>>
    /\ \E max_hops \in 0..MaxK :
          ret' = << [fn |-> "k_hop_layers_undirected", max_hops |-> max_hops,
                     value |-> k_hop_layers_undirected(ArgGraph, args.wallet, max_hops)] >>
    /\ UNCHANGED <<cvars, txTable, ing, runsTable, scoresTable, nextRunId, clock,
                   TX_SOURCE, csvFile, GRAPH, ILLICIT, GRAPH_READY, GRAPH_ERROR,
                   apc, rl, rs, wg, args>>

CallRiskScoreWallet ==
    /\ ret = <<>>
    /\ \E c \in Configs :
          ret' = << [fn |-> "risk_score_wallet", cfg |-> c,
                     value |-> risk_score_wallet(ArgGraph, args.wallet, args.illicit, c)] >>
    /\ UNCHANGED <<cvars, txTable, ing, runsTable, scoresTable, nextRunId, clock,
                   TX_SOURCE, csvFile, GRAPH, ILLICIT, GRAPH_READY, GRAPH_ERROR,
                   apc, rl, rs, wg, args>>

CallExplainWalletRisk ==
    /\ ret = <<>>
    /\ \E c \in Configs, o \in ExplainOptions :
          ret' = << [fn |-> "explain_wallet_risk", cfg |-> c, opts |-> o,
                     value |-> explain_wallet_risk(ArgGraph, args.wallet, args.illicit, c,
                                   o.max_hops, o.per_hop_limit, o.total_limit)] >>
    /\ UNCHANGED <<cvars, txTable, ing, runsTable, scoresTable, nextRunId, clock,
                   TX_SOURCE, csvFile, GRAPH, ILLICIT, GRAPH_READY, GRAPH_ERROR,
                   apc, rl, rs, wg, args>>

NextEngine ==
    \/ CallKHopExposure
    \/ CallKHopLayers
    \/ CallRiskScoreWallet
    \/ CallExplainWalletRisk

SpecEngine == InitEngine /\ [][NextEngine]_vars

(***************************************************************************)
(* build_tx_graph applied to one table of transactions, and the graph      *)
(* rebuilt from the same rows in another order                             *)
(***************************************************************************)
MaxRows == 3         \* rows of the table

\* the pairs (src, dst) and the amounts of the rows: 0.0, 1.0 and 2^53
BuildPairs == { <<"w1", "w2">>, <<"w2", "w1">>, <<"w2", "w3">>, <<"w1", "w1">> }
BuildAmounts == {0, 1, AmountWindow}

SeqsUpTo(S, n) == UNION { [1..m -> S] : m \in 0..n }

\* DataFrames with and without the amount column, and one without src/dst
BuildTables ==
    { [columns |-> {"src", "dst", "amount"}, rows |-> rws] :
         rws \in SeqsUpTo({ [src |-> e[1], dst |-> e[2], amount |-> a] :
                               e \in BuildPairs, a \in BuildAmounts }, MaxRows) }
    \cup
    { [columns |-> {"src", "dst"}, rows |-> rws] :
         rws \in SeqsUpTo({ [src |-> e[1], dst |-> e[2]] : e \in BuildPairs }, MaxRows) }
    \cup
    { [columns |-> {"from", "to"}, rows |-> << [from |-> "w1", to |-> "w2"] >>] }

Perms(n) == { p \in [1..n -> 1..n] : \A i, j \in 1..n : p[i] = p[j] => i = j }
Permuted(txs, p) == [txs EXCEPT !.rows = [i \in 1..Len(txs.rows) |-> txs.rows[p[i]]]]

InitBuild ==
    /\ ConsumerNotRunning
    /\ ApiNotRunning
    /\ args \in { [txs |-> t] : t \in BuildTables }
    /\ ret = <<>>

\* build_tx_graph(txs), ValueError when a required column is missing
BuildResult(txs) ==
    IF MissingColumns(txs) # {} THEN [raised |-> "ValueError"]
    ELSE [raised |-> None, graph |-> build_tx_graph(txs)]

CallBuildTxGraph ==
    /\ ret = <<>>
    /\ ret' = << [fn |-> "build_tx_graph", value |-> BuildResult(args.txs)] >>
    /\ UNCHANGED <<cvars, txTable, ing, runsTable, scoresTable, nextRunId, clock,
                   TX_SOURCE, csvFile, GRAPH, ILLICIT, GRAPH_READY, GRAPH_ERROR,
                   apc, rl, rs, wg, args>>

\* the graph built from the rows and from the same rows in another order
CallBuildTxGraphTwice ==
    /\ ret = <<>>
    /\ MissingColumns(args.txs) = {}
    /\ \E p \in Perms(Len(args.txs.rows)) :
          ret' = << [fn |-> "build_tx_graph_twice", perm |-> p,
                     first |-> build_tx_graph(args.txs),
                     second |-> build_tx_graph(Permuted(args.txs, p))] >>
    /\ UNCHANGED <<cvars, txTable, ing, runsTable, scoresTable, nextRunId, clock,
                   TX_SOURCE, csvFile, GRAPH, ILLICIT, GRAPH_READY, GRAPH_ERROR,
                   apc, rl, rs, wg, args>>

\* main lines 142-143 and run_score: the graph, the illicit set and the score
\* of every node
RebuildAndScore(txs) ==
    LET g == build_tx_graph(txs)
        illicit == pick_seed_illicit_wallets(g.nodes)
    IN  [graph |-> g, illicit |-> illicit,
         scores |-> [w \in NodeSet(g) |-> risk_score_wallet(g, w, illicit, cfg).risk_score]]

\* two rebuilds and scoring runs, the store returning the rows in two orders
CallRebuildAndScoreTwice ==
    /\ ret = <<>>
    /\ MissingColumns(args.txs) = {}
    /\ \E p \in Perms(Len(args.txs.rows)) :
          ret' = << [fn |-> "rebuild_and_score_twice", perm |-> p,
                     first |-> RebuildAndScore(args.txs),
                     second |-> RebuildAndScore(Permuted(args.txs, p))] >>
    /\ UNCHANGED <<cvars, txTable, ing, runsTable, scoresTable, nextRunId, clock,
                   TX_SOURCE, csvFile, GRAPH, ILLICIT, GRAPH_READY, GRAPH_ERROR,
                   apc, rl, rs, wg, args>>

NextBuild ==
    \/ CallBuildTxGraph
    \/ CallBuildTxGraphTwice
    \/ CallRebuildAndScoreTwice

SpecBuild == InitBuild /\ [][NextBuild]_vars

(***************************************************************************)
(* main.wallet_graph: the response, computed from GRAPH, ILLICIT and the   *)
(* store.  The order in which Python iterates over a set of wallets is an  *)
(* input: rank_order for list(layer), node_order for node_set.             *)
(***************************************************************************)
\* calculate_node_importance, as importance * 10^6; a stored risk score has
\* six decimals
calculate_node_importance(node, graph, score_map, illicit_set, center_wallet) ==
    LET risk_score == IF node \in DOMAIN score_map THEN score_map[node] \div 100 ELSE 0
        degree == in_degree(graph, node) + out_degree(graph, node)
        degree_score == Min(5000000, degree * 100000)
        is_illicit == IF node \in illicit_set THEN 1000000 ELSE 0
        connected_to_center ==
            (IF <<node, center_wallet>> \in DOMAIN graph.edges THEN 2000000 ELSE 0)
            + (IF <<center_wallet, node>> \in DOMAIN graph.edges THEN 2000000 ELSE 0)
    IN  degree_score * 4 + risk_score * 2 + connected_to_center + is_illicit \div 5

\* sorted(items, key=..., reverse=True) on records with a field key: the
\* sort is stable, items with equal keys keep their order
RECURSIVE SortedDesc(_, _)
SortedDesc(items, keys) ==
    IF keys = {} THEN <<>>
    ELSE LET m == CHOOSE x \in keys : \A y \in keys : y <= x
         IN  SelectSeq(items, LAMBDA e : e.key = m) \o SortedDesc(items, keys \ {m})

sorted_reverse(items) == SortedDesc(items, { items[i].key : i \in 1..Len(items) })

\* variant: the equal share is not capped at the size of the hop
RECURSIVE first_pass_uncapped(_, _, _, _)
first_pass_uncapped(hop_sizes, equal_share, remaining_to_allocate, hop_allocations) ==
    LET h == Len(hop_allocations) + 1
    IN  IF h > Len(hop_sizes)
        THEN [hop_allocations |-> hop_allocations,
              remaining_to_allocate |-> remaining_to_allocate]
        ELSE IF hop_sizes[h] = 0
        THEN first_pass_uncapped(hop_sizes, equal_share, remaining_to_allocate,
                                 Append(hop_allocations, 0))
        ELSE LET alloc == Min(equal_share, remaining_to_allocate)
             IN  first_pass_uncapped(hop_sizes, equal_share,
                                     remaining_to_allocate - alloc,
                                     Append(hop_allocations, alloc))

\* lines 545-554: equal shares, capped at the size of the hop
RECURSIVE first_pass(_, _, _, _)
first_pass(hop_sizes, equal_share, remaining_to_allocate, hop_allocations) ==
    LET h == Len(hop_allocations) + 1
    IN  IF h > Len(hop_sizes)
        THEN [hop_allocations |-> hop_allocations,
              remaining_to_allocate |-> remaining_to_allocate]
        ELSE IF hop_sizes[h] = 0
        THEN first_pass(hop_sizes, equal_share, remaining_to_allocate,
                        Append(hop_allocations, 0))
        ELSE LET alloc == Min(Min(equal_share, hop_sizes[h]), remaining_to_allocate)
             IN  first_pass(hop_sizes, equal_share, remaining_to_allocate - alloc,
                            Append(hop_allocations, alloc))

\* lines 558-569: what is left goes to the hops that have capacity, in order
RECURSIVE second_pass(_, _, _, _)
second_pass(hop_sizes, hop_allocations, remaining_to_allocate, h) ==
    IF h > Len(hop_sizes) \/ remaining_to_allocate = 0 THEN hop_allocations
    ELSE IF hop_sizes[h] = 0 \/ hop_allocations[h] >= hop_sizes[h]
    THEN second_pass(hop_sizes, hop_allocations, remaining_to_allocate, h + 1)
    ELSE LET can_add == Min(hop_sizes[h] - hop_allocations[h], remaining_to_allocate)
         IN  second_pass(hop_sizes, [hop_allocations EXCEPT ![h] = @ + can_add],
                         remaining_to_allocate - can_add, h + 1)

\* lines 537-569, for total_available > 0
hop_allocations(hop_sizes, remaining_budget) ==
    LET num_hops_with_nodes == Cardinality({ h \in 1..Len(hop_sizes) : hop_sizes[h] > 0 })
        equal_share == remaining_budget \div num_hops_with_nodes
        fp == first_pass(hop_sizes, equal_share, remaining_budget, <<>>)
    IN  second_pass(hop_sizes, fp.hop_allocations, fp.remaining_to_allocate, 1)

\* variant: the whole layer is taken whatever the allocation
selected_from_hop_whole(ranked_in_hop, allocation) == ranked_in_hop

\* lines 602-618: int(allocation * 0.4) is (2 * allocation) \div 5
selected_from_hop(ranked_in_hop, allocation) ==
    LET top_pct == (2 * allocation) \div 5
        mid_pct == (2 * allocation) \div 5
        bottom_pct == allocation - top_pct - mid_pct
        n == Len(ranked_in_hop)
        mid_start == n \div 3
    IN  IF n <= allocation THEN ranked_in_hop
        ELSE SubSeq(ranked_in_hop, 1, top_pct)
             \o SubSeq(ranked_in_hop, mid_start + 1, Min(mid_start + mid_pct, n))
             \o (IF bottom_pct > 0 THEN SubSeq(ranked_in_hop, n - bottom_pct + 1, n)
                 ELSE <<>>)

\* lines 588-600: the nodes of one hop, most important first
ranked_in_hop(graph, layer, score_map, illicit_set, wallet, rank_order) ==
    LET nodes_in_hop == SelectSeq(rank_order, LAMBDA n : n \in layer)
        items == [i \in 1..Len(nodes_in_hop) |->
                    [key |-> calculate_node_importance(nodes_in_hop[i], graph, score_map,
                                                       illicit_set, wallet),
                     node |-> nodes_in_hop[i]]]
        ranked == sorted_reverse(items)
    IN  [i \in 1..Len(ranked) |-> ranked[i].node]

\* lines 520-625: hop_map, whose keys are node_set
select_nodes(graph, layers, score_map, illicit_set, wallet, node_limit, rank_order) ==
    LET remaining_budget == node_limit - 1
        hop_sizes == [h \in 1..(Len(layers) - 1) |-> Cardinality(layers[h + 1])]
        total_available == SumSeq(hop_sizes)
    IN  IF remaining_budget > 0 /\ Len(layers) > 1 /\ total_available > 0
        THEN LET allocs == hop_allocations(hop_sizes, remaining_budget)
                 chosen == [h \in 1..Len(allocs) |->
                              IF allocs[h] = 0 THEN {}
                              ELSE SeqSet(selected_from_hop(
                                      ranked_in_hop(graph, layers[h + 1], score_map,
                                                    illicit_set, wallet, rank_order),
                                      allocs[h]))]
                 node_set == {wallet} \cup UNION { chosen[h] : h \in 1..Len(allocs) }
             IN  [n \in node_set |->
                    IF n = wallet THEN 0
                    ELSE CHOOSE h \in 1..Len(allocs) : n \in chosen[h]]
        ELSE [n \in {wallet} |-> 0]

\* crud.get_latest_run: ORDER BY created_at DESC, first row
get_latest_run(runs) ==
    IF runs = <<>> THEN <<>>
    ELSE << CHOOSE r \in SeqSet(runs) : \A q \in SeqSet(runs) : q.created_at <= r.created_at >>

\* lines 502-516: score_map, the scores of the latest run for the wallets of
\* the layers
latest_score_map(runs, scores, all_wallets) ==
    LET latest_run == get_latest_run(runs)
        found == IF latest_run = <<>> THEN {}
                 ELSE { i \in 1..Len(scores) :
                          /\ scores[i].run_id = latest_run[1].id
                          /\ scores[i].wallet \in all_wallets }
    IN  [w \in { scores[i].wallet : i \in found } |->
            scores[CHOOSE i \in found : scores[i].wallet = w].risk_score]

\* lines 634-649: one element of nodes_out
node_out(graph, illicit_set, score_map, hop_map, wallet, n) ==
    [id |-> n, label |-> n,
     hop |-> IF n \in DOMAIN hop_map THEN hop_map[n] ELSE 999,
     tag |-> IF n = wallet THEN "center"
             ELSE IF n \in illicit_set THEN "illicit" ELSE "neighbor",
     is_illicit |-> n \in illicit_set,
     risk_score |-> IF n \in DOMAIN score_map THEN score_map[n] ELSE None,
     in_degree |-> in_degree(graph, n),
     out_degree |-> out_degree(graph, n)]

edge_out(graph, e) ==
    [source |-> e[1], target |-> e[2], tx_count |-> graph.edges[e].tx_count,
     total_amount |-> graph.edges[e].amount]

\* variant: the other endpoint is not required to be in node_set
edges_at_unchecked(graph, src, node_set, min_amount) ==
    LET incoming == SelectSeq(graph.edge_order, LAMBDA e :
                        e[2] = src /\ graph.edges[e].amount >= min_amount)
        outgoing == SelectSeq(graph.edge_order, LAMBDA e :
                        e[1] = src /\ graph.edges[e].amount >= min_amount)
    IN  [i \in 1..Len(incoming) |-> edge_out(graph, incoming[i])]
        \o [i \in 1..Len(outgoing) |-> edge_out(graph, outgoing[i])]

\* lines 663-688, one iteration of `for src in node_set`: the incoming edges
\* of src, then its outgoing edges, each in the order the graph holds them
edges_at(graph, src, node_set, min_amount) ==
    LET incoming == SelectSeq(graph.edge_order, LAMBDA e :
                        e[2] = src /\ e[1] \in node_set
                        /\ graph.edges[e].amount >= min_amount)
        outgoing == SelectSeq(graph.edge_order, LAMBDA e :
                        e[1] = src /\ e[2] \in node_set
                        /\ graph.edges[e].amount >= min_amount)
    IN  [i \in 1..Len(incoming) |-> edge_out(graph, incoming[i])]
        \o [i \in 1..Len(outgoing) |-> edge_out(graph, outgoing[i])]

RECURSIVE collect_edges(_, _, _, _)
collect_edges(graph, node_seq, node_set, min_amount) ==
    IF node_seq = <<>> THEN <<>>
    ELSE edges_at(graph, Head(node_seq), node_set, min_amount)
         \o collect_edges(graph, Tail(node_seq), node_set, min_amount)

\* all_edges.sort(key=lambda e: e["total_amount"], reverse=True)
sort_by_amount(all_edges) ==
    LET ranked == sorted_reverse([i \in 1..Len(all_edges) |->
                                    [key |-> all_edges[i].total_amount,
                                     edge |-> all_edges[i]]])
    IN  [i \in 1..Len(ranked) |-> ranked[i].edge]

\* lines 693-708: edge_map, in the order of its keys
RECURSIVE merge_duplicates(_, _)
merge_duplicates(all_edges, edge_map) ==
    IF all_edges = <<>> THEN edge_map
    ELSE LET e == Head(all_edges)
             at == { i \in 1..Len(edge_map) :
                       edge_map[i].source = e.source /\ edge_map[i].target = e.target }
         IN  IF at # {}
             THEN merge_duplicates(Tail(all_edges),
                     [edge_map EXCEPT ![CHOOSE i \in at : TRUE] =
                         [@ EXCEPT !.tx_count = @ + e.tx_count,
                                   !.total_amount = FloatAdd(@, e.total_amount)]])
             ELSE merge_duplicates(Tail(all_edges), Append(edge_map, e))

\* lines 658-717: the edges of the response when TX_SOURCE is csv
csv_edges(graph, node_seq, min_amount, edge_limit) ==
    LET all_edges == collect_edges(graph, node_seq, SeqSet(node_seq), min_amount)
        merged == merge_duplicates(sort_by_amount(all_edges), <<>>)
        again == sort_by_amount(merged)
    IN  SubSeq(again, 1, Min(edge_limit, Len(again)))

\* crud.aggregate_edges_for_nodes, called at line 655; its definition is not
\* in crud.py.  Section 4.5 of the specification: the transactions between
\* two nodes of the set are grouped by (sender, receiver), a group is kept
\* when its total is at least min_amount, the groups are ordered by total,
\* largest first, and truncated to edge_limit
aggregate_edges_for_nodes(table, nodes, edge_limit, min_amount) ==
    LET between == SelectSeq(table, LAMBDA r : r.sender \in nodes /\ r.receiver \in nodes)
        groups == build_tx_graph(load_transactions_from_db(between))
        kept == SelectSeq(groups.edge_order,
                          LAMBDA e : groups.edges[e].amount >= min_amount)
        ordered == sort_by_amount([i \in 1..Len(kept) |-> edge_out(groups, kept[i])])
    IN  SubSeq(ordered, 1, Min(edge_limit, Len(ordered)))

\* lines 719-726
connected_only(nodes_out, edges_out, wallet, only_connected) ==
    IF only_connected /\ edges_out # <<>>
    THEN LET connected_nodes == { edges_out[i].source : i \in 1..Len(edges_out) }
                                \cup { edges_out[i].target : i \in 1..Len(edges_out) }
                                \cup {wallet}
         IN  SelectSeq(nodes_out, LAMBDA n : n.id \in connected_nodes)
    ELSE nodes_out

\* wallet_graph, lines 463-728: the HTTP status and the body
wallet_graph(wallet, hops, edge_limit, node_limit, min_amount, only_connected, rank_order, node_order) ==
    IF ~GRAPH_READY \/ GRAPH = <<>> \/ ILLICIT = <<>> THEN [status |-> 503]
    ELSE IF wallet \notin NodeSet(GRAPH[1]) THEN [status |-> 404]
    ELSE LET layers == k_hop_layers_undirected(GRAPH[1], wallet, hops)
             score_map == latest_score_map(runsTable, scoresTable,
                                           UNION SeqSet(layers))
             hop_map == select_nodes(GRAPH[1], layers, score_map, ILLICIT[1], wallet,
                                     node_limit, rank_order)
             node_seq == SelectSeq(node_order, LAMBDA n : n \in DOMAIN hop_map)
             nodes_out == [i \in 1..Len(node_seq) |->
                              node_out(GRAPH[1], ILLICIT[1], score_map, hop_map, wallet,
                                       node_seq[i])]
             edges_out == IF TX_SOURCE = "db"
                          THEN aggregate_edges_for_nodes(txTable, DOMAIN hop_map,
                                                         edge_limit, min_amount)
                          ELSE csv_edges(GRAPH[1], node_seq, min_amount, edge_limit)
         IN  [status |-> 200, center |-> wallet,
              nodes |-> connected_only(nodes_out, edges_out, wallet, only_connected),
              edges |-> edges_out]

(***************************************************************************)
(* The API process serving wallet_graph requests on a loaded graph         *)
(***************************************************************************)
MaxSubgraphRows == 2

SubgraphWallets == [i \in 1..15 |-> "w" \o ToString(i)]

\* transactions as <<sender, receiver, amount>>
SubgraphTransfers ==
    { <<"w1", "w2", 5>>, <<"w1", "w2", 0>>, <<"w2", "w1", 5>>, <<"w2", "w3", 5>>,
      <<"w1", "w1", 5>> }

\* w1 pays w2..w7, and w2 pays w8..w15: six wallets one hop from w1, eight
\* wallets two hops from it
StarTransfers ==
    [i \in 1..14 |->
        IF i <= 6 THEN <<"w1", SubgraphWallets[i + 1], i>>
        ELSE <<"w2", SubgraphWallets[i + 1], 1>>]

\* every wallet of w1..w11 pays the six that follow it in the ring: 66 edges
DenseTransfers ==
    [i \in 1..66 |->
        LET u == ((i - 1) \div 6) + 1
            k == ((i - 1) % 6) + 1
            v == ((u - 1 + k) % 11) + 1
        IN  <<SubgraphWallets[u], SubgraphWallets[v], ((u + v) % 3) + 1>>]

SubgraphTables ==
    SeqsUpTo(SubgraphTransfers, MaxSubgraphRows) \cup {StarTransfers, DenseTransfers}

\* the transfers as rows of the transactions table and as the DataFrame read
\* from the file at TX_PATH
TransfersAsTable(t) ==
    [i \in 1..Len(t) |->
        [tx_id |-> "t" \o ToString(i), sender |-> t[i][1], receiver |-> t[i][2],
         amount |-> t[i][3], timestamp |-> None]]
TransfersAsCsv(t) ==
    [columns |-> {"src", "dst", "amount"},
     rows |-> [i \in 1..Len(t) |-> [src |-> t[i][1], dst |-> t[i][2], amount |-> t[i][3]]]]

\* a completed run_score request on graph g: its run row and its score rows
CompletedRun(g, illicit, src) ==
    [runs |-> << [id |-> 1, created_at |-> 0,
                  tx_source |-> IF src = "csv" THEN "csv:data/transactions.csv"
                                ELSE "db:transactions",
                  config_json |-> [hop_weights |-> cfg.hop_weights,
                                   degree_normalize |-> cfg.degree_normalize,
                                   illicit_seed_pct |-> 5]] >>,
     scores |-> bulk_insert_risk_scores(1,
                    [i \in 1..Len(g.nodes) |-> ScoreRow(g, g.nodes[i], illicit)], 1)]

\* the state after startup() on a source holding the transfers, and, when
\* scored, after one run_score request
InitSubgraph ==
    /\ bus = <<>> /\ committed = 0 /\ position = 0 /\ buffer = <<>>
    /\ cpc = "connect" /\ attempt = 0 /\ connect_max_attempts = 0
    /\ time_due = FALSE
    /\ last_tx_id_seen = None /\ rows = <<>> /\ inserted = 0 /\ err = None
    /\ storedBefore = {}
    /\ ing = <<>>
    /\ apc = "serving"
    /\ rl = RlIdle
    /\ rs = [h \in RunWorkers |-> RsIdle]
    /\ wg = WgIdle
    /\ args = <<>>
    /\ ret = <<>>
    /\ \E t \in SubgraphTables, src \in {"db", "csv"}, scored \in BOOLEAN :
          /\ TX_SOURCE = src
          /\ txTable = IF src = "db" THEN TransfersAsTable(t) ELSE <<>>
          /\ csvFile = IF src = "csv" THEN TransfersAsCsv(t) ELSE CsvVersions[1]
          /\ IF src = "db" /\ t = <<>>
             THEN /\ ~scored
                  /\ GRAPH = <<>>
                  /\ ILLICIT = <<>>
                  /\ GRAPH_READY = FALSE
                  /\ GRAPH_ERROR = "TX_SOURCE=db but no transactions found. Ingest first, then POST /reload-graph."
                  /\ runsTable = <<>> /\ scoresTable = <<>>
                  /\ nextRunId = 1 /\ clock = 0
             ELSE LET g == build_tx_graph(TransfersAsCsv(t))
                      illicit == pick_seed_illicit_wallets(g.nodes)
                      run == CompletedRun(g, illicit, src)
                  IN  /\ GRAPH = << g >>
                      /\ ILLICIT = << illicit >>
                      /\ GRAPH_READY = TRUE
                      /\ GRAPH_ERROR = None
                      /\ runsTable = IF scored THEN run.runs ELSE <<>>
                      /\ scoresTable = IF scored THEN run.scores ELSE <<>>
                      /\ nextRunId = IF scored THEN 2 ELSE 1
                      /\ clock = IF scored THEN 2 ELSE 0

\* the values of the query parameters: hops in 1..4, edge_limit in 50..3000,
\* node_limit in 10..500, min_amount >= 0
SubgraphHops == {1, 2, 3}
SubgraphEdgeLimits == {50, 51}
SubgraphNodeLimits == {10, 11}
SubgraphMinAmounts == {0, 3, 10}

\* the orders in which a set of wallets is iterated
Ascending == SubgraphWallets
Descending == [i \in 1..Len(SubgraphWallets) |->
                  SubgraphWallets[Len(SubgraphWallets) + 1 - i]]
IterationOrders == {Ascending, Descending}

\* one wallet_graph request, served to its response
WalletGraph ==
    /\ apc = "serving"
    /\ ret = <<>>
    /\ \E wallet \in Wallets, hops \in SubgraphHops, edge_limit \in SubgraphEdgeLimits,
          node_limit \in SubgraphNodeLimits, min_amount \in SubgraphMinAmounts,
          only_connected \in BOOLEAN, order \in IterationOrders :
          ret' = << [fn |-> "wallet_graph", wallet |-> wallet, hops |-> hops,
                     edge_limit |-> edge_limit, node_limit |-> node_limit,
                     min_amount |-> min_amount, only_connected |-> only_connected,
                     response |-> wallet_graph(wallet, hops, edge_limit, node_limit,
                                               min_amount, only_connected,
                                               order, order)] >>
    /\ UNCHANGED <<cvars, txTable, ing, runsTable, scoresTable, nextRunId, clock,
                   TX_SOURCE, csvFile, GRAPH, ILLICIT, GRAPH_READY, GRAPH_ERROR,
                   apc, rl, rs, wg, args>>

NextSubgraph == WalletGraph

SpecSubgraph == InitSubgraph /\ [][NextSubgraph]_vars

(***************************************************************************)
(* The budget of wallet_graph applied to the sizes of the layers           *)
(***************************************************************************)
MaxBudgetHops == 3

\* len(layer) for the layers after the center: k_hop_layers_undirected
\* returns hops + 1 layers, and no layer follows an empty one but empty ones
LayerSizes == {0, 1, 4, 5, 11, 200, 2000}
HopSizes ==
    { hs \in UNION { [1..m -> LayerSizes] : m \in 1..MaxBudgetHops } :
        /\ hs[1] > 0
        /\ \A h \in 1..(Len(hs) - 1) : hs[h] = 0 => hs[h + 1] = 0 }

BudgetNodeLimits == {10, 11, 21}

InitBudget ==
    /\ ConsumerNotRunning
    /\ ApiNotRunning
    /\ args \in [hop_sizes : HopSizes, node_limit : BudgetNodeLimits]
    /\ ret = <<>>

\* lines 529-618 on layers of the given sizes: the allocation of every hop
\* and the positions in the ranking of the hop of the nodes taken from it
CallHopAllocations ==
    /\ ret = <<>>
    /\ LET allocs == hop_allocations(args.hop_sizes, args.node_limit - 1)
       IN  ret' = << [fn |-> "hop_allocations", hop_allocations |-> allocs,
                      selected |-> [h \in 1..Len(allocs) |->
                          IF allocs[h] = 0 THEN {}
                          ELSE SeqSet(selected_from_hop(
                                          [i \in 1..args.hop_sizes[h] |-> i],
                                          allocs[h]))]] >>
    /\ UNCHANGED <<cvars, txTable, ing, runsTable, scoresTable, nextRunId, clock,
                   TX_SOURCE, csvFile, GRAPH, ILLICIT, GRAPH_READY, GRAPH_ERROR,
                   apc, rl, rs, wg, args>>

NextBudget == CallHopAllocations

SpecBudget == InitBudget /\ [][NextBudget]_vars

(***************************************************************************)
(* main.ingestion_status and main.ready, served while the consumer ingests *)
(* and the graph is reloaded                                               *)
(***************************************************************************)
\* "no transactions found" in str(GRAPH_ERROR).lower(), for the messages that
\* startup and reload_graph store in GRAPH_ERROR
NoTransactionsFound(msg) ==
    msg \in {"TX_SOURCE=db but no transactions found. Ingest first, then POST /reload-graph.",
             "No transactions found in DB."}

\* variant: the message is taken as stale whatever tx_count is
ingestion_status_stale_always ==
    LET tx_count == Len(txTable)
        starting == IF TX_SOURCE = "csv" THEN ~GRAPH_READY
                    ELSE tx_count = 0 \/ ~GRAPH_READY \/ ing = <<>>
        by_source == IF starting THEN "starting" ELSE "ok"
        by_ingestion == IF ing # <<>> /\ Truthy(ing[1].last_error) THEN "degraded"
                        ELSE by_source
        status == IF Truthy(GRAPH_ERROR) /\ ~NoTransactionsFound(GRAPH_ERROR)
                  THEN "degraded" ELSE by_ingestion
    IN  [status |-> status, tx_count |-> tx_count, graph_ready |-> GRAPH_READY,
         graph_error |-> GRAPH_ERROR, tx_source |-> TX_SOURCE]

\* variant: a starting condition overrides the degraded conditions
ingestion_status_starting_first ==
    LET tx_count == Len(txTable)
        starting == IF TX_SOURCE = "csv" THEN ~GRAPH_READY
                    ELSE tx_count = 0 \/ ~GRAPH_READY \/ ing = <<>>
        degraded == \/ ing # <<>> /\ Truthy(ing[1].last_error)
                    \/ Truthy(GRAPH_ERROR)
                       /\ ~(NoTransactionsFound(GRAPH_ERROR) /\ tx_count > 0)
        status == IF starting THEN "starting" ELSE IF degraded THEN "degraded" ELSE "ok"
    IN  [status |-> status, tx_count |-> tx_count, graph_ready |-> GRAPH_READY,
         graph_error |-> GRAPH_ERROR, tx_source |-> TX_SOURCE]

\* ingestion_status, lines 326-410: the status and the fields of the response
\* that are read from the process and from the store
ingestion_status ==
    LET tx_count == Len(txTable)
        starting == IF TX_SOURCE = "csv" THEN ~GRAPH_READY
                    ELSE tx_count = 0 \/ ~GRAPH_READY \/ ing = <<>>
        by_source == IF starting THEN "starting" ELSE "ok"
        by_ingestion == IF ing # <<>> /\ Truthy(ing[1].last_error) THEN "degraded"
                        ELSE by_source
        status == IF Truthy(GRAPH_ERROR)
                     /\ ~(NoTransactionsFound(GRAPH_ERROR) /\ tx_count > 0)
                  THEN "degraded" ELSE by_ingestion
    IN  [status |-> status, tx_count |-> tx_count, graph_ready |-> GRAPH_READY,
         graph_error |-> GRAPH_ERROR, tx_source |-> TX_SOURCE]

\* the records the producer sends: a valid one and one without a receiver
ReadyRecords ==
    { [tx_id |-> "t1", sender |-> "w1", receiver |-> "w2", amount |-> "5"],
      [tx_id |-> "t3", sender |-> "w1", receiver |-> ""] }

InitReady ==
    /\ ConsumerNotRunning
    /\ ApiNotRunning
    /\ args = <<>>
    /\ ret = <<>>

ProduceReady ==
    /\ Len(bus) < MaxBus
    /\ \E r \in ReadyRecords : bus' = Append(bus, r)
    /\ UNCHANGED <<committed, position, buffer, cpc, attempt, connect_max_attempts, time_due,
                   last_tx_id_seen, rows, inserted, err, storedBefore, txTable, ing>>
    /\ UNCHANGED avars

\* ready, lines 416-423: the status ingestion_status reports, and 503 unless
\* it is ok
ServeReady ==
    /\ apc = "serving"
    /\ ret' = << [fn |-> "ready", status |-> ingestion_status.status,
                  status_code |-> IF ingestion_status.status # "ok" THEN 503 ELSE 200] >>
    /\ UNCHANGED <<cvars, txTable, ing, runsTable, scoresTable, nextRunId, clock,
                   TX_SOURCE, csvFile, GRAPH, ILLICIT, GRAPH_READY, GRAPH_ERROR,
                   apc, rl, rs, wg, args>>

\* lines 412-413: a query of ingestion_status raises ProgrammingError, which
\* the tables can do only while nothing was stored in them
ServeReadyDbError ==
    /\ apc = "serving"
    /\ txTable = <<>> /\ ing = <<>>
    /\ ret' = << [fn |-> "ready", status |-> None, status_code |-> 503] >>
    /\ UNCHANGED <<cvars, txTable, ing, runsTable, scoresTable, nextRunId, clock,
                   TX_SOURCE, csvFile, GRAPH, ILLICIT, GRAPH_READY, GRAPH_ERROR,
                   apc, rl, rs, wg, args>>

NextReady ==
    \/ ProduceReady
    \/ ConnectOk
    \/ ConnectFail
    \/ Poll
    \/ PollRaise
    \/ FlushUpsertOk
    \/ FlushUpsertRaise
    \/ FlushCommitOk
    \/ FlushCommitRaise
    \/ FlushRecordOk
    \/ FlushRecordRaise
    \/ HandlerRecordOk
    \/ HandlerRecordRaise
    \/ CrashRecordOk
    \/ CrashRecordRaise
    \/ StartupOk
    \/ StartupEmpty
    \/ StartupDbError
    \/ StartupError
    \/ ReloadLoad
    \/ ReloadEmpty
    \/ ReloadDbError
    \/ ReloadError
    \/ ReloadBuild
    \/ ReloadPick
    \/ ReloadReady
    \/ ReloadReturn
    \/ ServeReady
    \/ ServeReadyDbError

SpecReady == InitReady /\ [][NextReady]_vars

(***************************************************************************)
(* ready served for both sources, next to a consumer that finds one record *)
(* on the topic                                                            *)
(***************************************************************************)
InitStatus ==
    /\ bus \in { <<r>> : r \in ReadyRecords }
    /\ committed = 0
    /\ position = 0
    /\ buffer = <<>>
    /\ cpc = "connect"
    /\ attempt = 0
    /\ connect_max_attempts = 0
    /\ time_due = FALSE
    /\ last_tx_id_seen = None
    /\ rows = <<>>
    /\ inserted = 0
    /\ err = None
    /\ storedBefore = {}
    /\ txTable = <<>>
    /\ ing = <<>>
    /\ runsTable = <<>>
    /\ scoresTable = <<>>
    /\ nextRunId = 1
    /\ clock = 0
    /\ TX_SOURCE \in {"db", "csv"}
    /\ csvFile = CsvVersions[1]
    /\ GRAPH = <<>>
    /\ ILLICIT = <<>>
    /\ GRAPH_READY = FALSE
    /\ GRAPH_ERROR = None
    /\ apc = "boot"
    /\ rl = RlIdle
    /\ rs = [h \in RunWorkers |-> RsIdle]
    /\ wg = WgIdle
    /\ args = <<>>
    /\ ret = <<>>

NextStatus ==
    \/ ConnectOk
    \/ ConnectFail
    \/ Poll
    \/ PollRaise
    \/ FlushUpsertOk
    \/ FlushUpsertRaise
    \/ FlushCommitOk
    \/ FlushCommitRaise
    \/ FlushRecordOk
    \/ FlushRecordRaise
    \/ HandlerRecordOk
    \/ HandlerRecordRaise
    \/ CrashRecordOk
    \/ CrashRecordRaise
    \/ EnvEditCsv
    \/ StartupOk
    \/ StartupEmpty
    \/ StartupDbError
    \/ StartupError
    \/ ReloadLoad
    \/ ReloadEmpty
    \/ ReloadDbError
    \/ ReloadError
    \/ ReloadBuild
    \/ ReloadBuildRaise
    \/ ReloadPick
    \/ ReloadReady
    \/ ReloadReturn
    \/ ServeReady
    \/ ServeReadyDbError

SpecStatus == InitStatus /\ [][NextStatus]_vars

(***************************************************************************)
(* crud.get_latest_score_for_wallet and main.latest_score, served next to  *)
(* reload_graph and run_score                                              *)
(***************************************************************************)
\* the row of the wallet with the greatest created_at, <<>> for None
get_latest_score_for_wallet(scores, wallet) ==
    LET mine == { i \in 1..Len(scores) : scores[i].wallet = wallet }
    IN  IF mine = {} THEN <<>>
        ELSE << scores[CHOOSE i \in mine :
                         \A j \in mine : scores[j].created_at <= scores[i].created_at] >>

\* GET /scores/{wallet}: 404 without a row, else the fields of the row
LatestScore ==
    /\ apc = "serving"
    /\ \E wallet \in Wallets :
          LET s == get_latest_score_for_wallet(scoresTable, wallet)
          IN  ret' = << [fn |-> "latest_score", wallet |-> wallet,
                         status |-> IF s = <<>> THEN 404 ELSE 200,
                         row |-> s] >>
    /\ UNCHANGED <<cvars, txTable, ing, runsTable, scoresTable, nextRunId, clock,
                   TX_SOURCE, csvFile, GRAPH, ILLICIT, GRAPH_READY, GRAPH_ERROR,
                   apc, rl, rs, wg, args>>

NextScores ==
    \/ EnvIngest
    \/ EnvEditCsv
    \/ StartupOk
    \/ StartupEmpty
    \/ StartupDbError
    \/ StartupError
    \/ ReloadLoad
    \/ ReloadEmpty
    \/ ReloadDbError
    \/ ReloadError
    \/ ReloadBuild
    \/ ReloadBuildRaise
    \/ ReloadPick
    \/ ReloadReady
    \/ ReloadReturn
    \/ \E h \in {1} : RunRejected(h)
    \/ \E h \in {1} : RunGuard(h)
    \/ \E h \in {1} : RunCreate(h)
    \/ \E h \in {1} : RunCreateRaise(h)
    \/ \E h \in {1} : RunScoreWallet(h)
    \/ \E h \in {1} : RunScoreWalletRaise(h)
    \/ \E h \in {1} : RunBulkInsert(h)
    \/ \E h \in {1} : RunCommit(h)
    \/ \E h \in {1} : RunCommitRaise(h)
    \/ \E h \in {1} : RunReturn(h)
    \/ LatestScore

SpecScores == InitApi /\ [][NextScores]_vars

(***************************************************************************)
(* Properties of the consumer                                              *)
(***************************************************************************)
RowIds(rws) == { rws[i].tx_id : i \in 1..Len(rws) }
TotalInserted(state) == IF state = <<>> THEN 0 ELSE state[1].total_inserted

\* C1: the offsets of a batch are committed only after the bulk upsert of the
\* batch's valid rows has been committed to the database (the committed offset
\* moves only in the step after a successful upsert, to the polled position,
\* with every valid row of the buffer stored); a flush whose upsert raises
\* commits no offsets.
C1_OffsetsAfterDbCommit ==
    [][ /\ (committed' # committed =>
               /\ cpc = "commit"
               /\ rows = ValidRows(buffer)
               /\ RowIds(rows) \subseteq TableIds(txTable)
               /\ committed' = position)
        /\ (cpc = "flush" /\ cpc' = "flush_failed" => committed' = committed)
        /\ (cpc = "flush_failed" => committed' = committed) ]_vars

\* offsets were just committed for a batch with valid rows, after an earlier
\* flush had failed
C1_Witness ==
    /\ cpc = "record"
    /\ committed = position
    /\ committed > 0
    /\ rows # <<>>
    /\ ing # <<>>
    /\ ing[1].last_error # None

\* C2: every valid bus record below the committed consumer-group offset is
\* present in the transactions table, and no tx_id is stored more than once.
C2_ExactlyOnce ==
    /\ \A i \in 1..committed :
          normalize_record(bus[i]) # <<>> =>
              normalize_record(bus[i])[1].tx_id \in TableIds(txTable)
    /\ \A i, j \in 1..Len(txTable) :
          txTable[i].tx_id = txTable[j].tx_id => i = j

\* two valid records with the same tx_id are below the committed offset, and
\* the consumer has been restarted after an error was recorded
C2_Witness ==
    /\ committed = 2
    /\ normalize_record(bus[1]) # <<>>
    /\ normalize_record(bus[2]) # <<>>
    /\ normalize_record(bus[1])[1].tx_id = normalize_record(bus[2])[1].tx_id
    /\ Len(txTable) = 1
    /\ cpc = "connect"
    /\ ing # <<>>
    /\ ing[1].last_error # None

\* C3: a successful flush adds to total_inserted exactly the number of tx_ids
\* of its rows that were not stored when the flush began; a flush whose tx_ids
\* are all stored already leaves the transactions table unchanged and adds 0.
C3_IdempotentRedelivery ==
    [][ /\ (cpc = "record" /\ cpc' = "poll" =>
               /\ TotalInserted(ing') - TotalInserted(ing)
                     = Cardinality(RowIds(rows) \ storedBefore)
               /\ (RowIds(rows) \subseteq storedBefore =>
                      /\ TableIds(txTable) = storedBefore
                      /\ TotalInserted(ing') = TotalInserted(ing)))
        /\ (cpc = "flush" /\ RowIds(ValidRows(buffer)) \subseteq TableIds(txTable) =>
               txTable' = txTable) ]_vars

\* a batch whose only tx_id is stored already has been upserted again
C3_Witness ==
    /\ cpc = "record"
    /\ rows # <<>>
    /\ inserted = 0
    /\ RowIds(rows) \subseteq storedBefore
    /\ TotalInserted(ing) > 0

\* C9: a storage failure during a flush never terminates the consumer: the
\* handler of a failed flush keeps the buffer and goes back to polling, also
\* when writing the last_error telemetry fails.
C9_FlushFailureNeverTerminates ==
    [][ cpc = "flush_failed" =>
           \/ cpc' = "poll" /\ buffer' = buffer
           \/ cpc' = "exited" /\ err' = err ]_vars

\* C10: a failed flush changes only last_error of the ingestion-state row:
\* last_tx_id and total_inserted keep the values of the last successful flush.
C10_FailedFlushKeepsState ==
    [][ cpc = "flush_failed" /\ ing # <<>> =>
           /\ ing' # <<>>
           /\ ing'[1].last_tx_id = ing[1].last_tx_id
           /\ ing'[1].total_inserted = ing[1].total_inserted ]_vars

\* C11: a successful flush leaves the ingestion-state row with last_tx_id the
\* tx_id of the last record of the flushed buffer that has a non-empty one
\* (valid or skipped), total_inserted larger by exactly the number of rows the
\* flush added to the transactions table, and last_error null; and no step,
\* of a successful or a failed flush, makes total_inserted smaller.
C11_IngestionStateAfterFlush ==
    [][ /\ (cpc = "record" /\ cpc' = "poll" =>
               LET withId == { i \in 1..Len(buffer) : Truthy(Get(buffer[i], "tx_id")) }
               IN  /\ ing' # <<>>
                   /\ \A i \in withId :
                         (\A j \in withId : j <= i) =>
                             ing'[1].last_tx_id = buffer[i].tx_id
                   /\ withId = {} => ing'[1].last_tx_id = None
                   /\ TotalInserted(ing') =
                         TotalInserted(ing) + Len(txTable) - Cardinality(storedBefore)
                   /\ ing'[1].last_error = None)
        /\ TotalInserted(ing') >= TotalInserted(ing) ]_vars

\* a flush of a valid record followed by a skipped one has succeeded after an
\* earlier successful flush: last_tx_id is the skipped record's tx_id
C11_Witness ==
    /\ cpc = "poll"
    /\ buffer = <<>>
    /\ committed = 2
    /\ ing # <<>>
    /\ ing[1].last_error = None
    /\ ing[1].last_tx_id = "t3"
    /\ ing[1].total_inserted = 1
    /\ Len(txTable) = 1

\* a record that lacks tx_id, a sender (under sender or src) or a receiver
\* (under receiver or dst)
Poison(r) ==
    \/ ~Truthy(Get(r, "tx_id"))
    \/ ~Truthy(Get(r, "sender")) /\ ~Truthy(Get(r, "src"))
    \/ ~Truthy(Get(r, "receiver")) /\ ~Truthy(Get(r, "dst"))

\* C12: poison records never block progress: the flush of a batch counts
\* exactly its poison records as skipped and stores every other record of the
\* batch; a batch of poison records only cannot fail at the store; the offset
\* commit of the flush covers the whole batch, the buffer is dropped when the
\* flush completes, and the committed offset never moves back, so that the
\* consumer never fetches a committed record again.
C12_PoisonNeverBlocks ==
    [][ /\ (cpc = "flush" /\ cpc' = "commit" =>
               LET poison == { i \in 1..Len(buffer) : Poison(buffer[i]) }
               IN  /\ Skipped(buffer) = Cardinality(poison)
                   /\ Len(rows') = Len(buffer) - Cardinality(poison)
                   /\ \A i \in (1..Len(buffer)) \ poison :
                         buffer[i].tx_id \in TableIds(txTable')
                   /\ inserted' = Len(txTable') - Len(txTable))
        /\ (cpc = "flush" /\ (\A i \in 1..Len(buffer) : Poison(buffer[i])) =>
               cpc' # "flush_failed")
        /\ (cpc = "commit" /\ cpc' = "record" =>
               /\ buffer = SubSeq(bus, position - Len(buffer) + 1, position)
               /\ committed' = position)
        /\ (cpc = "record" /\ cpc' = "poll" => buffer' = <<>> /\ committed = position)
        /\ committed' >= committed
        /\ position' >= committed' ]_vars

\* a poison record and a valid record were flushed in one batch: one row is
\* stored and the offsets of both records are committed
C12_Witness ==
    /\ cpc = "record"
    /\ Len(buffer) = 2
    /\ Poison(buffer[1])
    /\ ~Poison(buffer[2])
    /\ Len(rows) = 1
    /\ inserted = 1
    /\ committed = 2

RunIds(t) == { t[i].id : i \in 1..Len(t) }
ScoresOfRun(id) == SelectSeq(scoresTable, LAMBDA r : r.run_id = id)
InFlight(h) == rs[h].pc \in {"guarded", "loop", "commit"}

\* C4: the graph and the illicit set are published together: a reader that
\* has read the graph now published never pairs it with an illicit set other
\* than the one derived from that graph.
C4_PublishedTogether ==
    (wg.pc = "done" /\ wg.i # <<>> /\ wg.g = GRAPH) =>
        wg.i[1] = pick_seed_illicit_wallets(wg.g[1].nodes)

\* C5: every wallet of a scoring run is scored against the graph and the
\* illicit set that were current when the run started.
C5_OneSnapshotPerRun ==
    \A h \in RunWorkers : \A k \in 1..Len(rs[h].rows) :
        /\ rs[h].rows[k].wallet \in NodeSet(rs[h].g0[1])
        /\ rs[h].rows[k] = ScoreRow(rs[h].g0[1], rs[h].rows[k].wallet, rs[h].i0[1])

\* C6: at most one scoring run is in flight at any time.
C6_AtMostOneRun ==
    Cardinality({ h \in RunWorkers : InFlight(h) }) <= 1

\* C7: a scoring run is all-or-nothing: the store holds neither the run row
\* nor a risk-score row of a run that is in flight or has failed, every stored
\* risk-score row belongs to a stored run, and the two tables change only in
\* the final commit, which adds the run row and all its rows together.
C7_AllOrNothing ==
    /\ [](\A h \in RunWorkers :
             (rs[h].pc # "done" /\ rs[h].run # <<>>) =>
                 /\ rs[h].run[1].id \notin RunIds(runsTable)
                 /\ ScoresOfRun(rs[h].run[1].id) = <<>>)
    /\ [](\A i \in 1..Len(scoresTable) : scoresTable[i].run_id \in RunIds(runsTable))
    /\ [][ (runsTable' # runsTable \/ scoresTable' # scoresTable) =>
              \E h \in RunWorkers :
                  /\ rs[h].pc = "commit" /\ rs'[h].pc = "done"
                  /\ runsTable' = runsTable \o rs[h].run
                  /\ scoresTable' = scoresTable \o rs[h].objs
                  /\ Len(rs[h].objs) = Len(rs[h].nodes) ]_vars

\* a run has failed in the middle of its loop, after its run row was created
\* and some wallets were scored, while an earlier run is stored
C7_Witness ==
    /\ rs[1].pc = "failed"
    /\ rs[1].run # <<>>
    /\ rs[1].rows # <<>>
    /\ runsTable # <<>>

\* C8: for a committed run the number of risk-score rows with its run_id is
\* the number of nodes of the graph the run iterated, wallets_scored is that
\* number, the rows are those nodes, and no two rows of a run have the same
\* wallet.
C8_OneRowPerNode ==
    /\ \A h \in RunWorkers :
          rs[h].pc = "done" =>
              LET stored == ScoresOfRun(rs[h].result[1].run_id)
              IN  /\ Len(stored) = Len(rs[h].nodes)
                  /\ rs[h].result[1].wallets_scored = Len(rs[h].nodes)
                  /\ { stored[i].wallet : i \in 1..Len(stored) } = SeqSet(rs[h].nodes)
    /\ \A i, j \in 1..Len(scoresTable) :
          (scoresTable[i].run_id = scoresTable[j].run_id
             /\ scoresTable[i].wallet = scoresTable[j].wallet) => i = j

\* a second run has been committed, and the graph was replaced by a larger
\* one while it ran
C8_Witness ==
    /\ rs[1].pc = "done"
    /\ Len(runsTable) = 2
    /\ Len(rs[1].nodes) = 2
    /\ Len(GRAPH[1].nodes) = 3
    /\ rs[1].result[1].wallets_scored = 2

(***************************************************************************)
(* Properties of the risk engine                                           *)
(***************************************************************************)
\* u and v are joined by an edge, in either direction
Adjacent(g, u, v) == <<u, v>> \in DOMAIN g.edges \/ <<v, u>> \in DOMAIN g.edges

\* the nodes at undirected distance at most k from v
RECURSIVE Within(_, _, _)
Within(g, v, k) ==
    IF k <= 0 THEN {v}
    ELSE LET B == Within(g, v, k - 1)
         IN  B \cup { u \in NodeSet(g) : \E b \in B : Adjacent(g, b, u) }

\* the nodes at undirected distance exactly h from v
Exactly(g, v, h) == IF h = 0 THEN {v} ELSE Within(g, v, h) \ Within(g, v, h - 1)

Called(fn) == ret # <<>> /\ ret[1].fn = fn

\* C14: for a node v of the graph, k_hop_exposure(g, v, illicit, k) is the
\* number of illicit nodes at undirected distance at most k from v, v itself
\* included; for k = 0 it is 1 if v is illicit and 0 otherwise.
C14_ExposureCountsWithinK ==
    Called("k_hop_exposure") =>
        /\ ret[1].value =
              Cardinality(Within(ArgGraph, args.wallet, ret[1].k) \cap args.illicit)
        /\ ret[1].k = 0 => ret[1].value = (IF args.wallet \in args.illicit THEN 1 ELSE 0)

\* the wallet is not illicit, has an illicit node at distance 1 and another at
\* distance 2, and k = 2 counts both
C14_Witness ==
    /\ Called("k_hop_exposure")
    /\ ret[1].k = 2
    /\ ret[1].value = 2
    /\ args.wallet \notin args.illicit
    /\ Exactly(ArgGraph, args.wallet, 1) \cap args.illicit # {}
    /\ Exactly(ArgGraph, args.wallet, 2) \cap args.illicit # {}

\* C15: for a start node v of the graph, k_hop_layers_undirected(g, v, H)
\* returns H + 1 layers, layer 0 is {v}, layer h is the set of nodes at
\* undirected distance exactly h from v, the layers are pairwise disjoint and
\* their union is the set of nodes within H undirected hops of v.
C15_LayersAreExactDistances ==
    (Called("k_hop_layers_undirected") /\ args.wallet \in NodeSet(ArgGraph)) =>
        LET L == ret[1].value
            H == ret[1].max_hops
        IN  /\ Len(L) = H + 1
            /\ L[1] = {args.wallet}
            /\ \A h \in 0..H : L[h + 1] = Exactly(ArgGraph, args.wallet, h)
            /\ \A h1, h2 \in 0..H : h1 # h2 => L[h1 + 1] \cap L[h2 + 1] = {}
            /\ UNION { L[h + 1] : h \in 0..H } = Within(ArgGraph, args.wallet, H)

\* three hops were asked for on a graph where the start node has nodes at
\* distance 1 and 2 and none at distance 3
C15_Witness ==
    /\ Called("k_hop_layers_undirected")
    /\ ret[1].max_hops = 3
    /\ Len(ret[1].value) = 4
    /\ ret[1].value[2] # {}
    /\ ret[1].value[3] # {}
    /\ ret[1].value[4] = {}

\* C16: k_hop_exposure is monotone non-decreasing in k: the count for k is at
\* most the count for k + 1, also from the special-cased k = 0 to k = 1.
C16_ExposureMonotone ==
    Called("k_hop_exposure") =>
        ret[1].value <= k_hop_exposure(ArgGraph, args.wallet, args.illicit, ret[1].k + 1)

\* k = 0 on a wallet that is not illicit and has an illicit neighbour: the
\* count grows from 0 to 1
C16_Witness ==
    /\ Called("k_hop_exposure")
    /\ ret[1].k = 0
    /\ ret[1].value = 0
    /\ k_hop_exposure(ArgGraph, args.wallet, args.illicit, 1) = 1

\* the edges that end and that start at v
InEdges(g, v) == { e \in DOMAIN g.edges : e[2] = v }
OutEdges(g, v) == { e \in DOMAIN g.edges : e[1] = v }

\* C17: for a wallet of the graph, risk_score_wallet returns one exposures
\* entry per hop weight, in hop order, whose illicit_count is
\* k_hop_exposure(v, hop), and the risk_score is the sum of weight times
\* illicit_count over the hops, divided by sqrt(max(1, in_degree + out_degree))
\* when degree_normalize is set and not divided otherwise, rounded to six
\* decimals.
C17_RiskScoreIsWeightedSum ==
    (Called("risk_score_wallet") /\ args.wallet \in NodeSet(ArgGraph)) =>
        LET c == ret[1].cfg
            r == ret[1].value
            H == Len(c.hop_weights)
            count(h) == Cardinality(Within(ArgGraph, args.wallet, h) \cap args.illicit)
            total == SumSeq([h \in 1..H |-> c.hop_weights[h] * count(h - 1)])
            degree == Cardinality(InEdges(ArgGraph, args.wallet))
                        + Cardinality(OutEdges(ArgGraph, args.wallet))
        IN  /\ Len(r.exposures) = H
            /\ \A h \in 1..H :
                  /\ r.exposures[h].hop = h - 1
                  /\ r.exposures[h].weight = c.hop_weights[h]
                  /\ r.exposures[h].illicit_count =
                        k_hop_exposure(ArgGraph, args.wallet, args.illicit, h - 1)
                  /\ r.exposures[h].illicit_count = count(h - 1)
            /\ r.risk_score =
                  (IF c.degree_normalize THEN Round6Div(total, Max(1, degree))
                   ELSE Round6(total))

\* the middle wallet of the chain w1 -> w2 -> w3 with w3 illicit, scored with
\* the configuration of main.py: 0.9 / sqrt(2) = 0.636396
C17_Witness ==
    /\ Called("risk_score_wallet")
    /\ ret[1].cfg = cfg
    /\ args.wallet = "w2"
    /\ args.illicit = {"w3"}
    /\ DOMAIN ArgGraph.edges = { <<"w1", "w2">>, <<"w2", "w3">> }
    /\ ret[1].value.risk_score = 63639600

\* scenario S1: the transactions W1 -> W2, W2 -> W3, illicit = {W3}, the hop
\* weights (1.0, 0.6, 0.3) and degree_normalize = false, scored at W1
ScenarioS1 ==
    /\ Called("risk_score_wallet")
    /\ args.txs.rows = << [src |-> "w1", dst |-> "w2"], [src |-> "w2", dst |-> "w3"] >>
    /\ args.illicit = {"w3"}
    /\ args.wallet = "w1"
    /\ ret[1].cfg = [hop_weights |-> cfg.hop_weights, degree_normalize |-> FALSE]

\* C18: in scenario S1 the risk score of W1 is 0.9.
C18_ScenarioS1Score09 ==
    ScenarioS1 => ret[1].value.risk_score = 9 * (Unit \div 10)

\* C18 as amended: in scenario S1 the exposures of W1 at the hops 0, 1, 2 are
\* 0, 0, 1 and its risk score is 0.3.
C18_ScenarioS1Score03 ==
    ScenarioS1 =>
        /\ [h \in 1..3 |-> ret[1].value.exposures[h].illicit_count] = <<0, 0, 1>>
        /\ ret[1].value.risk_score = 3 * (Unit \div 10)

\* scenario S1 has been scored
C18_Witness ==
    /\ ScenarioS1
    /\ ret[1].value.in_degree = 0
    /\ ret[1].value.out_degree = 1

\* C19: for a wallet of the graph and a configuration with non-negative hop
\* weights, the explain_score of explain_wallet_risk over all the hops of the
\* configuration is at most the risk_score of risk_score_wallet computed with
\* the same configuration.
C19_ExplainNeverExceedsRisk ==
    (/\ Called("explain_wallet_risk")
     /\ args.wallet \in NodeSet(ArgGraph)
     /\ ret[1].opts.max_hops = <<>>) =>
        ret[1].value.explain_score
            <= risk_score_wallet(ArgGraph, args.wallet, args.illicit, ret[1].cfg).risk_score

\* the number of hops explain_wallet_risk reports: max_hops, or the last hop
\* of the configuration when max_hops is None or larger
EffectiveHops(c, o) ==
    IF o.max_hops = <<>> THEN Len(c.hop_weights) - 1
    ELSE Max(0, Min(o.max_hops[1], Len(c.hop_weights) - 1))

\* C20: explain_wallet_risk reports exact-hop counts: hop_breakdown has one
\* entry for every hop h from 0 to max_hops, whose illicit_count_exact is the
\* number of illicit nodes at exactly h undirected hops from the wallet;
\* top_contributors lists only such nodes with their hop, each once, and all
\* of them unless total_limit cuts the list; for the chain W1 -> W2 -> W3 with
\* illicit {W3} and the weights (1.0, 0.6, 0.3) the counts at W1 are 0, 0, 1
\* and explain_score is 0.3.
C20_ExplainExactHopCounts ==
    (Called("explain_wallet_risk") /\ args.wallet \in NodeSet(ArgGraph)) =>
        LET e == ret[1].value
            o == ret[1].opts
            mh == EffectiveHops(ret[1].cfg, o)
            here(h) == Exactly(ArgGraph, args.wallet, h) \cap args.illicit
            pairs == { <<n, h>> \in SeqSet(WalletOrder) \X (0..mh) : n \in here(h) }
            listed == { << e.top_contributors[i].wallet, e.top_contributors[i].hop >> :
                          i \in 1..Len(e.top_contributors) }
        IN  /\ Len(e.hop_breakdown) = mh + 1
            /\ \A h \in 0..mh :
                  /\ e.hop_breakdown[h + 1].hop = h
                  /\ e.hop_breakdown[h + 1].illicit_count_exact = Cardinality(here(h))
            /\ listed \subseteq pairs
            /\ Cardinality(listed) = Len(e.top_contributors)
            /\ Len(e.top_contributors) = Min(Cardinality(pairs), o.total_limit)
            /\ (/\ DOMAIN ArgGraph.edges = { <<"w1", "w2">>, <<"w2", "w3">> }
                /\ args.illicit = {"w3"}
                /\ args.wallet = "w1"
                /\ ret[1].cfg.hop_weights = cfg.hop_weights
                /\ mh = 2)
                 => /\ [h \in 1..3 |-> e.hop_breakdown[h].illicit_count_exact] = <<0, 0, 1>>
                    /\ e.explain_score = 3 * (Unit \div 10)
                    /\ listed = { <<"w3", 2>> }

\* the chain W1 -> W2 -> W3 with illicit {W3} has been explained at W1 with
\* max_hops = None
C20_Witness ==
    /\ Called("explain_wallet_risk")
    /\ DOMAIN ArgGraph.edges = { <<"w1", "w2">>, <<"w2", "w3">> }
    /\ args.illicit = {"w3"}
    /\ args.wallet = "w1"
    /\ ret[1].cfg = cfg
    /\ ret[1].opts.max_hops = <<>>
    /\ ret[1].value.explain_score = 3 * (Unit \div 10)

(***************************************************************************)
(* Properties of the graph build                                           *)
(***************************************************************************)
RowPairs(txs) == { <<txs.rows[i].src, txs.rows[i].dst>> : i \in 1..Len(txs.rows) }

\* the amounts of the rows of one pair, added in the order of the rows
RECURSIVE AmountsAdded(_, _)
AmountsAdded(rws, acc) ==
    IF rws = <<>> THEN acc
    ELSE AmountsAdded(Tail(rws), FloatAdd(acc, Head(rws).amount))

PairAmount(txs, e) ==
    IF "amount" \notin txs.columns THEN 0
    ELSE AmountsAdded(SelectSeq(txs.rows, LAMBDA r : <<r.src, r.dst>> = e), 0)

\* C21: for every table with the columns src and dst, build_tx_graph returns a
\* graph with exactly one edge per distinct pair (src, dst) of the rows, whose
\* tx_count is the number of rows of the pair and whose amount is the sum of
\* their amounts (added in the order of the rows, 0.0 without an amount
\* column); its nodes are exactly the wallets occurring as src or dst.
C21_GraphAggregatesRows ==
    (Called("build_tx_graph") /\ ret[1].value.raised = None) =>
        LET g == ret[1].value.graph
            txs == args.txs
        IN  /\ DOMAIN g.edges = RowPairs(txs)
            /\ SeqSet(g.edge_order) = RowPairs(txs)
            /\ Len(g.edge_order) = Cardinality(RowPairs(txs))
            /\ \A e \in RowPairs(txs) :
                  /\ g.edges[e].tx_count =
                        Cardinality({ i \in 1..Len(txs.rows) :
                                         <<txs.rows[i].src, txs.rows[i].dst>> = e })
                  /\ g.edges[e].amount = PairAmount(txs, e)
            /\ NodeSet(g) = { e[1] : e \in RowPairs(txs) } \cup { e[2] : e \in RowPairs(txs) }
            /\ Len(g.nodes) = Cardinality(NodeSet(g))

\* a pair with two rows and another pair with one, all with amounts
C21_Witness ==
    /\ Called("build_tx_graph")
    /\ ret[1].value.raised = None
    /\ "amount" \in args.txs.columns
    /\ Len(args.txs.rows) = 3
    /\ Cardinality(RowPairs(args.txs)) = 2
    /\ \E e \in RowPairs(args.txs) :
          /\ ret[1].value.graph.edges[e].tx_count = 2
          /\ ret[1].value.graph.edges[e].amount = 2

\* the rows of the pair e
RowsOf(txs, e) == SelectSeq(txs.rows, LAMBDA r : <<r.src, r.dst>> = e)

\* every amount of the pair e is a whole number below 2^53, and so is their
\* sum: no addition of the build rounds
WholeAmounts(txs, e) ==
    "amount" \in txs.columns =>
        /\ \A i \in 1..Len(RowsOf(txs, e)) : RowsOf(txs, e)[i].amount < AmountWindow
        /\ SumSeq([i \in 1..Len(RowsOf(txs, e)) |-> RowsOf(txs, e)[i].amount]) < AmountWindow

\* C22 (as stated): the graph built from any permutation of the rows has the
\* same node set, the same edge set and the same tx_count and amount on every
\* edge as the graph built from the rows.
C22_BuildCommutative ==
    Called("build_tx_graph_twice") =>
        /\ NodeSet(ret[1].first) = NodeSet(ret[1].second)
        /\ DOMAIN ret[1].first.edges = DOMAIN ret[1].second.edges
        /\ \A e \in DOMAIN ret[1].first.edges :
              /\ ret[1].first.edges[e].tx_count = ret[1].second.edges[e].tx_count
              /\ ret[1].first.edges[e].amount = ret[1].second.edges[e].amount

\* C22 (amended): the graph built from any permutation of the rows has the
\* same node set, the same edge set and the same tx_count on every edge, and
\* the same amount on every edge whose amounts are non-negative whole numbers
\* with a sum below 2^53.
C22_BuildCommutativeExactSums ==
    Called("build_tx_graph_twice") =>
        /\ NodeSet(ret[1].first) = NodeSet(ret[1].second)
        /\ DOMAIN ret[1].first.edges = DOMAIN ret[1].second.edges
        /\ \A e \in DOMAIN ret[1].first.edges :
              /\ ret[1].first.edges[e].tx_count = ret[1].second.edges[e].tx_count
              /\ WholeAmounts(args.txs, e) =>
                    ret[1].first.edges[e].amount = ret[1].second.edges[e].amount

\* the rows of one pair come in another order with different amounts, and the
\* nodes of the two graphs were added in different orders
C22_Witness ==
    /\ Called("build_tx_graph_twice")
    /\ ret[1].first.nodes # ret[1].second.nodes
    /\ \E e \in DOMAIN ret[1].first.edges :
          /\ ret[1].first.edges[e].tx_count = 2
          /\ WholeAmounts(args.txs, e)
          /\ "amount" \in args.txs.columns
          /\ RowsOf(args.txs, e)[1].amount # RowsOf(args.txs, e)[2].amount
          /\ RowsOf(Permuted(args.txs, ret[1].perm), e)[1].amount = RowsOf(args.txs, e)[2].amount
          /\ ret[1].first.edges[e].amount = 1

\* C23 (as stated): two rebuilds from the same persisted transactions, the
\* store returning the rows in any two orders, derive the same illicit set
\* (same seed and fraction), and the two scoring runs give every wallet the
\* same risk score.
C23_ScoringDeterministic ==
    Called("rebuild_and_score_twice") =>
        /\ ret[1].first.illicit = ret[1].second.illicit
        /\ ret[1].first.scores = ret[1].second.scores

(***************************************************************************)
(* Properties of the wallet subgraph                                       *)
(***************************************************************************)
\* the response of the wallet_graph request that was served with status 200
Served == Called("wallet_graph") /\ ret[1].response.status = 200
NodeIds(r) == { r.nodes[i].id : i \in 1..Len(r.nodes) }

C25_ResponseWithinLimits ==
    Served =>
        /\ Len(ret[1].response.nodes) <= ret[1].node_limit
        /\ Len(ret[1].response.edges) <= ret[1].edge_limit

\* both limits bite: more wallets within hops of the center than node_limit,
\* and more edges in the graph between the returned nodes than edge_limit
C25_Witness ==
    /\ Served
    /\ Cardinality(Within(GRAPH[1], ret[1].wallet, ret[1].hops)) > ret[1].node_limit
    /\ Len(ret[1].response.nodes) = ret[1].node_limit
    /\ Cardinality({ e \in DOMAIN GRAPH[1].edges :
                       e[1] \in NodeIds(ret[1].response)
                       /\ e[2] \in NodeIds(ret[1].response) }) > ret[1].edge_limit
    /\ Len(ret[1].response.edges) = ret[1].edge_limit

\* the hops whose layer is not empty, and the equal share of the budget
NonEmptyHops(hs) == { h \in 1..Len(hs) : hs[h] > 0 }
EqualShare(hs, node_limit) == (node_limit - 1) \div Cardinality(NonEmptyHops(hs))

\* C26: no hop is allocated more than the size of its layer; the allocations
\* sum to min(node_limit - 1, number of nodes in the layers); when every
\* non-empty layer has at least floor((node_limit - 1) / m) nodes, m the
\* number of non-empty layers, each of them is allocated at least that many;
\* and layers of 200 and 2000 nodes with node_limit 21 give 10 nodes of hop 1
\* and 10 nodes of hop 2
C26_BudgetSplit ==
    Called("hop_allocations") =>
        LET hs == args.hop_sizes
            allocs == ret[1].hop_allocations
            share == EqualShare(hs, args.node_limit)
        IN  /\ Len(allocs) = Len(hs)
            /\ \A h \in 1..Len(hs) : allocs[h] <= hs[h]
            /\ SumSeq(allocs) = Min(args.node_limit - 1, SumSeq(hs))
            /\ (\A h \in NonEmptyHops(hs) : hs[h] >= share)
                   => \A h \in NonEmptyHops(hs) : allocs[h] >= share
            /\ (hs = <<200, 2000>> /\ args.node_limit = 21)
                   => /\ allocs = <<10, 10>>
                      /\ Cardinality(ret[1].selected[1]) = 10
                      /\ Cardinality(ret[1].selected[2]) = 10

\* the scenario: 200 wallets one hop away, 2000 two hops away, node_limit 21
C26_Witness ==
    /\ Called("hop_allocations")
    /\ args.hop_sizes = <<200, 2000>>
    /\ args.node_limit = 21
    /\ ret[1].hop_allocations = <<10, 10>>

\* C27: every edge of a response of wallet_graph carries the tx_count and the
\* amount that the transaction graph holds for its pair, and no pair
\* (source, target) appears twice in edges
C27_EdgesCarryGraphAggregates ==
    Served =>
        LET edges == ret[1].response.edges
        IN  /\ \A i \in 1..Len(edges) :
                  LET e == <<edges[i].source, edges[i].target>>
                  IN  /\ e \in DOMAIN GRAPH[1].edges
                      /\ edges[i].tx_count = GRAPH[1].edges[e].tx_count
                      /\ edges[i].total_amount = GRAPH[1].edges[e].amount
            /\ \A i, j \in 1..Len(edges) :
                  (edges[i].source = edges[j].source /\ edges[i].target = edges[j].target)
                      => i = j

\* C28: with only_connected the nodes of a response of wallet_graph are the
\* center and the endpoints of the retained edges, so the center alone when
\* no edge is retained
C28_OnlyConnectedNodes ==
    (Served /\ ret[1].only_connected) =>
        LET edges == ret[1].response.edges
        IN  NodeIds(ret[1].response) =
                {ret[1].wallet} \cup { edges[i].source : i \in 1..Len(edges) }
                                \cup { edges[i].target : i \in 1..Len(edges) }

(***************************************************************************)
(* Properties of the readiness model                                       *)
(***************************************************************************)
\* startup() found the transactions table empty, and it still is
StartedEmpty ==
    /\ apc = "serving"
    /\ TX_SOURCE = "db"
    /\ txTable = <<>>
    /\ GRAPH_ERROR = "TX_SOURCE=db but no transactions found. Ingest first, then POST /reload-graph."

\* C29 as stated: with TX_SOURCE=db and a transactions table that is empty
\* at startup, ingestion_status reports "starting" and ready answers 503
C29_EmptyTableIsStarting ==
    [][(ServeReady /\ StartedEmpty)
          => (ret'[1].status = "starting" /\ ret'[1].status_code = 503)]_vars

\* C29, amended: with TX_SOURCE=db and a transactions table that is empty at
\* startup, ingestion_status reports "degraded" (the message that startup left
\* in GRAPH_ERROR is not stale while tx_count is 0) and ready answers 503
C29_EmptyTableIsDegraded ==
    [][(ServeReady /\ StartedEmpty)
          => (ret'[1].status = "degraded" /\ ret'[1].status_code = 503)]_vars

\* ready was served after a startup on an empty table, before any ingestion
C29_Witness ==
    /\ StartedEmpty
    /\ ing = <<>>
    /\ Called("ready")
    /\ ret[1].status = "degraded"
    /\ ret[1].status_code = 503

\* the last flush the consumer recorded succeeded, and it has stored records
FlushedOk ==
    /\ TX_SOURCE = "db"
    /\ ing # <<>>
    /\ ~Truthy(ing[1].last_error)
    /\ ing[1].total_inserted >= 1

\* C30: once the consumer has flushed at least one record successfully and
\* reload_graph has then succeeded, whatever GRAPH_ERROR held before the
\* reload, ingestion_status reports "ok" and ready answers 200: in the state
\* a successful reload_graph returns in, and in every request served while
\* the flush and the reload are the last that happened
C30_RecoveredIsOk ==
    [][/\ (ReloadReturn /\ FlushedOk) => (ingestion_status.status = "ok")'
       /\ (ServeReady /\ FlushedOk /\ GRAPH_READY /\ GRAPH_ERROR = None)
             => (ret'[1].status = "ok" /\ ret'[1].status_code = 200)]_vars

\* ready answered 200 after a flush that stored a record and a reload
C30_Witness ==
    /\ FlushedOk
    /\ GRAPH_READY
    /\ GRAPH_ERROR = None
    /\ rl.pc = "idle"
    /\ Called("ready")
    /\ ret[1].status = "ok"
    /\ ret[1].status_code = 200

\* the conditions of section 4.6, read from the store and from the process
StatusDegraded ==
    \/ ing # <<>> /\ Truthy(ing[1].last_error)
    \/ /\ Truthy(GRAPH_ERROR)
       /\ ~(NoTransactionsFound(GRAPH_ERROR) /\ Len(txTable) > 0)
StatusStarting ==
    \/ ~GRAPH_READY
    \/ TX_SOURCE = "db" /\ (txTable = <<>> \/ ing = <<>>)

\* C31: the status is degraded when last_error is set or GRAPH_ERROR holds a
\* message that is not a stale "no transactions found" one, whatever else
\* holds; otherwise starting when the graph is not loaded or, for the db
\* source, the table is empty or there is no ingestion-state row; otherwise
\* ok; and ready answers 200 exactly when the status is ok
C31_StatusPrecedence ==
    [][ServeReady =>
          /\ ret'[1].status = IF StatusDegraded THEN "degraded"
                              ELSE IF StatusStarting THEN "starting" ELSE "ok"
          /\ (ret'[1].status_code = 200) <=> (ret'[1].status = "ok")
          /\ ret'[1].status_code \in {200, 503}]_vars

\* ready answered degraded while a starting condition holds as well
C31_Witness ==
    /\ Called("ready")
    /\ ret[1].status = "degraded"
    /\ ret[1].status_code = 503
    /\ StatusDegraded
    /\ StatusStarting
    /\ TX_SOURCE = "csv"

\* what run_score, explain_score and wallet_graph test before they serve a
\* request (lines 174-178, 267, 490)
SnapshotInService == GRAPH_READY /\ GRAPH # <<>> /\ ILLICIT # <<>>

\* a step in which reload_graph fails
ReloadFails == ReloadEmpty \/ ReloadDbError \/ ReloadError \/ ReloadBuildRaise

\* C32: a reload that fails while a snapshot is in service leaves GRAPH and
\* ILLICIT as they were and the handlers keep serving from that snapshot
C32_FailedReloadKeepsService ==
    [][(ReloadFails /\ SnapshotInService) =>
          /\ GRAPH' = GRAPH
          /\ ILLICIT' = ILLICIT
          /\ SnapshotInService']_vars

\* the test of main at line 161, on the buffer as it stands
FlushDue == buffer # <<>> /\ (time_due \/ Len(buffer) >= batch_size)

\* a step in which flush_batch raises, and the step of the handler after which
\* the loop continues
FlushFails == FlushUpsertRaise \/ FlushCommitRaise \/ FlushRecordRaise

\* C33: a failed flush after which the loop continues leaves the buffer and
\* last_flush as they were, so that the next iteration flushes again, with
\* the same records in the same order before the newly polled ones; only a
\* successful flush (or a new process) empties the buffer
C33_FailedFlushRetried ==
    [][/\ (FlushFails \/ HandlerRecordOk) =>
              /\ buffer' = buffer
              /\ time_due' = time_due
       /\ HandlerRecordOk => FlushDue'
       /\ (Poll /\ FlushDue) =>
              /\ cpc' = "flush"
              /\ Len(buffer') >= Len(buffer)
              /\ SubSeq(buffer', 1, Len(buffer)) = buffer
       /\ (buffer # <<>> /\ buffer' = <<>>) => (FlushRecordOk \/ Restart)]_vars

\* a flush is under way on the two records of a flush that failed before
C33_Witness ==
    /\ cpc = "flush"
    /\ Len(buffer) = 2
    /\ buffer = SubSeq(bus, committed + 1, committed + 2)
    /\ ing # <<>>
    /\ Truthy(ing[1].last_error)
    /\ committed = 0
    /\ ~time_due

\* C34: with a limit N > 0 the consumer leaves the connection loop by
\* re-raising at its N-th failed attempt, without having polled; with N = 0
\* a failed attempt is always followed by another one; and the poll loop is
\* entered only by a successful connection
C34_ConnectTerminates ==
    [][/\ ConnectFail =>
              /\ (cpc' = "exited") <=> (connect_max_attempts > 0
                                         /\ attempt' = connect_max_attempts)
              /\ cpc' # "exited" => cpc' = "connect"
              /\ connect_max_attempts > 0 => attempt' <= connect_max_attempts
              /\ connect_max_attempts = 0 => cpc' = "connect"
              /\ position' = position /\ buffer' = buffer
       /\ (cpc = "connect" /\ connect_max_attempts > 0) =>
              attempt < connect_max_attempts
       /\ (cpc = "connect" /\ cpc' \notin {"connect", "exited"}) =>
              (ConnectOk /\ cpc' = "poll")
       /\ Poll => cpc # "connect"]_vars

\* the consumer gave up at its second failed attempt, records waiting
C34_Witness ==
    /\ cpc = "exited"
    /\ connect_max_attempts = 2
    /\ attempt = 2
    /\ bus # <<>>
    /\ position = 0
    /\ buffer = <<>>
    /\ ing = <<>>

\* the illicit nodes of the exact-hop layers 0..max_hops of the call, each with
\* its hop and the contribution of that hop
Candidates ==
    LET v == ret[1].value
        deg == Max(1, v.in_degree + v.out_degree)
        nd == IF ret[1].cfg.degree_normalize THEN deg ELSE 1
    IN  { [wallet |-> n, hop |-> h,
           contribution |-> Round6Div(ret[1].cfg.hop_weights[h + 1], nd)] :
             n \in args.illicit, h \in 0..EffectiveHops(ret[1].cfg, ret[1].opts) }
        \cap { c \in [wallet : args.illicit, hop : 0..MaxK, contribution : Int] :
                 c.wallet \in Exactly(ArgGraph, args.wallet, c.hop) }

\* the order (-contribution, hop, wallet), wallets compared as strings
KeyLeq(a, b) ==
    \/ a.contribution > b.contribution
    \/ a.contribution = b.contribution /\ a.hop < b.hop
    \/ a.contribution = b.contribution /\ a.hop = b.hop
          /\ \E i, j \in 1..Len(WalletOrder) :
                i <= j /\ WalletOrder[i] = a.wallet /\ WalletOrder[j] = b.wallet

\* C35: top_contributors holds only illicit nodes of the exact-hop layers
\* 0..max_hops, each wallet once, in the order (-contribution, hop, wallet),
\* at most total_limit of them, and what is cut off comes after what is kept
C35_TopContributors ==
    (Called("explain_wallet_risk") /\ "top_contributors" \in DOMAIN ret[1].value) =>
        LET tc == ret[1].value.top_contributors
            kept == { [wallet |-> tc[i].wallet, hop |-> tc[i].hop,
                       contribution |-> tc[i].contribution] : i \in 1..Len(tc) }
        IN  /\ kept \subseteq Candidates
            /\ \A i, j \in 1..Len(tc) : i # j => tc[i].wallet # tc[j].wallet
            /\ \A i, j \in 1..Len(tc) : i < j => KeyLeq(tc[i], tc[j])
            /\ Len(tc) <= ret[1].opts.total_limit
            /\ Len(tc) = Min(ret[1].opts.total_limit, Cardinality(Candidates))
            /\ \A c \in Candidates \ kept : \A k \in kept : KeyLeq(k, c)

\* three illicit wallets on a chain, the list cut to two; the one cut off
\* ties in contribution with one that is kept
C35_Witness ==
    /\ Called("explain_wallet_risk")
    /\ "top_contributors" \in DOMAIN ret[1].value
    /\ ret[1].opts.total_limit = 2
    /\ Cardinality(Candidates) = 3
    /\ Len(ret[1].value.top_contributors) = 2
    /\ \E c \in Candidates :
          /\ \A i \in 1..2 : ret[1].value.top_contributors[i].wallet # c.wallet
          /\ c.contribution = ret[1].value.top_contributors[2].contribution

\* C36: whenever no flush is in progress, total_inserted of the consumer's
\* ingestion-state row is the number of rows the consumer has inserted into
\* the transactions table (every row of the table is the consumer's here)
C36_TelemetryExact ==
    cpc \in {"connect", "poll"} => TotalInserted(ing) = Len(txTable)

\* C37: GRAPH_READY implies that GRAPH and ILLICIT are set; ILLICIT changes
\* only to a set of nodes of the graph that GRAPH holds at that moment (so it
\* is always a subset of the nodes of a graph that was published); and GRAPH
\* and ILLICIT, once set, are never None again
C37_ReadyImpliesSnapshot ==
    [][/\ GRAPH_READY' => (GRAPH' # <<>> /\ ILLICIT' # <<>>)
       /\ ILLICIT' # ILLICIT =>
             (GRAPH' # <<>> /\ ILLICIT' # <<>>
              /\ ILLICIT'[1] \subseteq NodeSet(GRAPH'[1]))
       /\ GRAPH # <<>> => GRAPH' # <<>>
       /\ ILLICIT # <<>> => ILLICIT' # <<>>]_vars

\* a wallet_graph request is being served while a reload has replaced GRAPH
\* and not yet ILLICIT
C37_Witness ==
    /\ GRAPH_READY
    /\ rl.pc = "built"
    /\ wg.pc = "layers"
    /\ GRAPH # <<>>
    /\ ILLICIT # <<>>
    /\ GRAPH[1] # build_tx_graph(CsvVersions[1])
    /\ ILLICIT[1] = pick_seed_illicit_wallets(build_tx_graph(CsvVersions[1]).nodes)
    /\ TX_SOURCE = "csv"

\* the sum over the layers of the number of illicit nodes in each
IllicitInLayers(L, illicit) ==
    SumSeq([h \in 1..Len(L) |-> Cardinality(L[h] \cap illicit)])

\* C38: for a node v of the graph and k >= 0, k_hop_exposure(g, v, illicit, k)
\* is the sum over h = 0..k of the number of illicit nodes of layer h of
\* k_hop_layers_undirected(g, v, k)
C38_TraversalsAgree ==
    /\ Called("k_hop_exposure") =>
          LET L == k_hop_layers_undirected(ArgGraph, args.wallet, ret[1].k)
          IN  /\ Len(L) = ret[1].k + 1
              /\ ret[1].value = IllicitInLayers(L, args.illicit)
    /\ (Called("k_hop_layers_undirected") /\ args.wallet \in NodeSet(ArgGraph)) =>
          /\ Len(ret[1].value) = ret[1].max_hops + 1
          /\ IllicitInLayers(ret[1].value, args.illicit)
                = k_hop_exposure(ArgGraph, args.wallet, args.illicit, ret[1].max_hops)

\* the exposure 3 within two hops: one illicit node in each of the layers
C38_Witness ==
    /\ Called("k_hop_exposure")
    /\ ret[1].k = 2
    /\ ret[1].value = 3
    /\ LET L == k_hop_layers_undirected(ArgGraph, args.wallet, 2)
       IN  \A h \in 1..3 : Cardinality(L[h] \cap args.illicit) = 1

\* C39: in a hop whose layer has more nodes than its allocation the three
\* slices of the ranking do not overlap, exactly as many distinct nodes as the
\* allocation are selected, and the nodes selected, with the centre, are
\* min(node_limit, 1 + the nodes of the layers) in number
C39_WholeAllocationUsed ==
    Called("hop_allocations") =>
        LET allocs == ret[1].hop_allocations
            picked == ret[1].selected
        IN  /\ \A h \in 1..Len(allocs) :
                  args.hop_sizes[h] > allocs[h] =>
                      Cardinality(picked[h]) = allocs[h]
            /\ 1 + SumSeq([h \in 1..Len(allocs) |-> Cardinality(picked[h])])
                  = Min(args.node_limit, 1 + SumSeq(args.hop_sizes))

\* C40: the row latest_score finds for a wallet is the wallet's row of the
\* most recent scoring run, and no row is found when that run has none for
\* the wallet
C40_LatestScoreOfLatestRun ==
    [][LatestScore =>
          LET latest_run == get_latest_run(runsTable)
              w == ret'[1].wallet
              of_latest == IF latest_run = <<>> THEN {}
                           ELSE { i \in 1..Len(scoresTable) :
                                    /\ scoresTable[i].run_id = latest_run[1].id
                                    /\ scoresTable[i].wallet = w }
          IN  IF of_latest = {} THEN ret'[1].row = <<>>
              ELSE /\ ret'[1].row # <<>>
                   /\ ret'[1].row[1].run_id = latest_run[1].id]_vars

====
